---- MODULE Spec2Model ----
(***************************************************************************)
(* Retry-and-repair control loops of Knowlify.                             *)
(*                                                                         *)
(*   Spec        generate_manim_animation (KB Approach/qa_agent_v5.py):    *)
(*               API gate, syntax-fix loop, first render, runtime-fix loop *)
(*               with its nested syntax re-validation, final save.         *)
(*   SpecLive    the runs of Spec that do not stop before the return.      *)
(*   SpecClient  EdulyAnimationClient.animate_single and .animate          *)
(*               (Agentic Approach/src/eduly/client.py).                   *)
(*   SpecBoth    the runs of Spec together with the runs of SpecClient.    *)
(*   SpecShared  two animate_single calls on one animation_workspace.      *)
(*   SpecApiFix  auto_fix_deprecated_api applied to a source and then to   *)
(*               its own output (KB Approach/error_handler.py).            *)
(*   SpecQuickFix  quick_fix_syntax applied to a source and an error text. *)
(*   SpecExtract the error summary execute_manim_script cuts from the      *)
(*               output of a failed render.                                *)
(*   SpecFilename  the output files animate copies the videos of a batch   *)
(*               to.                                                       *)
(*   SpecFence   the fence stripping of fix_code_with_claude.              *)
(*                                                                         *)
(* A candidate source text is a record [id, valid]: id names the version   *)
(* of the text (every patch that changes the text yields a fresh id) and   *)
(* valid is what ast.parse says of that text.  The outcomes of the         *)
(* collaborators (syntax of a generated text, rule-based patch, API scan,  *)
(* render) are inputs, drawn with \E in the step that calls them.          *)
(***************************************************************************)
EXTENDS Naturals, Integers, Sequences, FiniteSets, TLC

VARIABLES
    \* ---- generate_manim_animation (qa_agent_v5.py) ----
    pc,                 \* position in generate_manim_animation
    script,             \* current candidate source: [id, valid]
    nextId,             \* id the next new text will get
    is_valid,           \* last verdict of validate_python_syntax
    syntax_error,       \* id of the text the last syntax error is about, 0 for ""
    syntax_fix_count,
    runtime_fix_count,
    execution_result,   \* last value returned by execute_manim_script
    returned,           \* the tuple handed back to the caller, NoValue before
    log,                \* the branch messages printed so far
    modelSyntaxCalls,   \* calls of fix_code_with_claude(..., "syntax", ...)
    modelRuntimeCalls,  \* calls of fix_code_with_claude(..., "runtime", ...)
    renderCalls,        \* calls of execute_manim_script
    syntax_checked,     \* id of the text last given to validate_python_syntax
    is_api_valid,       \* "True" / "False" of the last validate_manim_api, "unset" before
    fixes_applied,      \* "fixes" / "empty" list of the last auto_fix_deprecated_api, "unset" before
    api_checked,        \* model patches made when the API gate last finished, -1 before
    files,              \* INTERMEDIATE_DIR: file name -> id of the text it holds
    \* ---- EdulyAnimationClient (client.py) ----
    cpc,                \* position in animate_single / animate
    mode,               \* "single": animate_single, "batch": animate
    nTopics,            \* len(breakdown.topics)
    storyboards,        \* the storyboards, each "ok" or "null" (None)
    topic_indices,      \* the requested indices (animate_single: just one)
    max_iterations,
    ti,                 \* position of the for loop in topic_indices
    topic_idx,
    topic_name,         \* index of the topic the name is taken from, -1 "Unknown"
    iteration,
    success,
    manim_result,       \* CompletedProcess of the last render: [render |-> n]
    ws,                 \* animation_workspace: [scene, videos]
    results,            \* AnimationResults appended (animate) or returned
    renderLog,          \* per render of the current topic: what the check said
    agentCalls,         \* agent.invoke calls for the current topic
    renders,            \* _render_scene calls over the whole run
    on_progress,        \* TRUE: the caller passed a callback, FALSE: None
    progress,           \* the calls of on_progress so far
    aborted,            \* some call of on_progress has returned "abort"
    steps,              \* the calls of the current topic that returned, in order
    \* ---- two animate_single calls on one workspace ----
    calls,              \* per call: [pc, iteration, success, result]
    shared_ws,          \* the animation_workspace both calls use
    \* ---- a pure function of error_handler.py under study ----
    fn,                 \* its name, "idle" when none is
    fn_args,            \* the arguments of the last application
    fn_ret,             \* what the last application returned
    fn_calls            \* number of applications so far

kbVars == <<pc, script, nextId, is_valid, syntax_error, syntax_fix_count,
            runtime_fix_count, execution_result, returned, log,
            modelSyntaxCalls, modelRuntimeCalls, renderCalls, syntax_checked,
            is_api_valid, fixes_applied, api_checked, files>>

clVars == <<cpc, mode, nTopics, storyboards, topic_indices, max_iterations,
            ti, topic_idx, topic_name, iteration, success, manim_result, ws,
            results, renderLog, agentCalls, renders, on_progress, progress,
            aborted, steps>>

clInputs == <<mode, nTopics, storyboards, topic_indices, max_iterations,
              on_progress>>

shVars == <<calls, shared_ws>>

pfVars == <<fn, fn_args, fn_ret, fn_calls>>

vars == <<kbVars, clVars, shVars, pfVars>>

\* What a step of generate_manim_animation leaves alone.
notKB == <<clVars, shVars, pfVars>>

\* What a step of the client leaves alone.
notClient == <<kbVars, shVars, pfVars>>

\* What the API gate assigns.
apiVars == <<is_api_valid, fixes_applied, api_checked>>

NoValue == [none |-> TRUE]

(***************************************************************************)
(* Program constants of generate_manim_animation.                          *)
(***************************************************************************)
max_syntax_fixes == 3

max_runtime_fixes == 2

(***************************************************************************)
(* Collaborators, as far as the orchestrator sees them.                    *)
(***************************************************************************)
\* A text that did not exist before: the draft, or the output of a patcher.
NewText(v) == [id |-> nextId, valid |-> v]

\* validate_python_syntax(code): (is_valid, error); the error names the text.
validate_python_syntax(code) ==
    [is_valid |-> code.valid, syntax_error |-> IF code.valid THEN 0 ELSE code.id]

\* How the manim run of execute_manim_script can go: the file has no Scene
\* class (line 308), subprocess.run returns with code 0 or another code,
\* raises TimeoutExpired after timeout=600, or raises something else.
ManimRuns ==
    {"no_scene", "returncode_0", "returncode_nonzero", "TimeoutExpired",
     "Exception"}

\* execute_manim_script, lines 298-372: the dictionary returned for `code`
\* when the run goes as `run`; both except clauses return a failure.
execute_manim_script(code, run) ==
    [success |-> (run = "returncode_0"),
     of |-> code.id,
     error_message |->
        CASE run = "returncode_0" -> "None"
          [] run = "no_scene" -> "No Scene class found"
          [] run = "TimeoutExpired" -> "Timeout after 600s"
          [] OTHER -> "error"]

\* The render outcomes execute_manim_script can return for the text `code`.
RenderOutcomes(code) == { execute_manim_script(code, run) : run \in ManimRuns }

NoResult == [success |-> FALSE, of |-> 0, error_message |-> "unset"]

(***************************************************************************)
(* Loop conditions.                                                        *)
(***************************************************************************)
SyntaxLoopCond == ~is_valid /\ syntax_fix_count < max_syntax_fixes

RuntimeLoopCondSkipsTimeout ==
    /\ ~execution_result.success
    /\ execution_result.error_message # "Timeout after 600s"
    /\ runtime_fix_count < max_runtime_fixes

RuntimeLoopCondOffByOne ==
    ~execution_result.success /\ runtime_fix_count <= max_runtime_fixes

RuntimeLoopCond ==
    ~execution_result.success /\ runtime_fix_count < max_runtime_fixes

(***************************************************************************)
(* The files generate_manim_animation writes into INTERMEDIATE_DIR.        *)
(***************************************************************************)
\* Line 613: manim_script_v1.py
DraftFile == [name |-> "manim_script_v1", n |-> 0]

\* Line 634: manim_script_v1_api_fixed.py
ApiFixedFile == [name |-> "manim_script_v1_api_fixed", n |-> 0]

\* Line 666: manim_script_v1_syntax_fix_{syntax_fix_count}.py
SyntaxFixFile(n) == [name |-> "manim_script_v1_syntax_fix", n |-> n]

\* Line 682: manim_script_current.py
CurrentFile == [name |-> "manim_script_current", n |-> 0]

\* Lines 716 and 761: manim_script_v{runtime_fix_count + 1}_runtime_fixed.py
RuntimeFixedFile(n) == [name |-> "manim_script_runtime_fixed", n |-> n + 1]

\* Line 777: final_scene.py
FinalFile == [name |-> "final_scene", n |-> 0]

\* open(f, "w").write(text): the file f holds text, whatever it held before.
WriteFile(f, text) == (f :> text.id) @@ files

InitKB ==
    /\ pc = "api_gate"
    /\ \E v \in BOOLEAN : script = [id |-> 1, valid |-> v]
    /\ nextId = 2
    /\ is_valid = FALSE
    /\ syntax_error = 0
    /\ syntax_fix_count = 0
    /\ runtime_fix_count = 0
    /\ execution_result = NoResult
    /\ returned = NoValue
    /\ log = {}
    /\ modelSyntaxCalls = 0
    /\ modelRuntimeCalls = 0
    /\ renderCalls = 0
    /\ syntax_checked = 0
    /\ is_api_valid = "unset"
    /\ fixes_applied = "unset"
    /\ api_checked = -1
    /\ files = DraftFile :> 1

\* The orchestrator while the client is the program under study.
KBIdle ==
    /\ pc = "idle"
    /\ script = [id |-> 0, valid |-> TRUE]
    /\ nextId = 0
    /\ is_valid = FALSE
    /\ syntax_error = 0
    /\ syntax_fix_count = 0
    /\ runtime_fix_count = 0
    /\ execution_result = NoResult
    /\ returned = NoValue
    /\ log = {}
    /\ modelSyntaxCalls = 0
    /\ modelRuntimeCalls = 0
    /\ renderCalls = 0
    /\ syntax_checked = 0
    /\ is_api_valid = "unset"
    /\ fixes_applied = "unset"
    /\ api_checked = -1
    /\ files = DraftFile :> 0

None_ == [none |-> TRUE]

\* The client while the orchestrator is the program under study.
ClientIdle ==
    /\ cpc = "idle"
    /\ mode = "none"
    /\ nTopics = 0
    /\ storyboards = <<>>
    /\ topic_indices = <<>>
    /\ max_iterations = 0
    /\ ti = 0
    /\ topic_idx = 0
    /\ topic_name = -1
    /\ iteration = 0
    /\ success = FALSE
    /\ manim_result = None_
    /\ ws = [scene |-> 0, videos |-> {}]
    /\ results = <<>>
    /\ renderLog = <<>>
    /\ agentCalls = 0
    /\ renders = 0
    /\ on_progress = FALSE
    /\ progress = <<>>
    /\ aborted = FALSE
    /\ steps = <<>>

\* The two concurrent calls while another program is under study.
SharedIdle ==
    /\ calls = <<>>
    /\ shared_ws = [scene |-> 0, videos |-> {}]

\* No pure function under study.
PureIdle ==
    /\ fn = "idle"
    /\ fn_args = None_
    /\ fn_ret = None_
    /\ fn_calls = 0

(***************************************************************************)
(* STEP 6A: validate_manim_api, then auto_fix_deprecated_api when issues   *)
(* were found.  "valid": no issue.  "fixed": issues, and the rewriter      *)
(* changed the text.  "unfixable": issues, text returned as it was.        *)
(***************************************************************************)
ApiGateResult(outcome, v) ==
    IF outcome = "fixed" THEN NewText(v) ELSE script

ApiGate ==
    /\ pc = "api_gate"
    /\ \E outcome \in {"valid", "fixed", "unfixable"}, v \in BOOLEAN :
         /\ script' = ApiGateResult(outcome, v)
         /\ nextId' = IF outcome = "fixed" THEN nextId + 1 ELSE nextId
         /\ files' = IF outcome = "fixed"
                     THEN WriteFile(ApiFixedFile, ApiGateResult(outcome, v))
                     ELSE files
         /\ is_api_valid' = IF outcome = "valid" THEN "True" ELSE "False"
         /\ fixes_applied' = CASE outcome = "valid" -> fixes_applied
                                [] outcome = "fixed" -> "fixes"
                                [] OTHER -> "empty"
    /\ api_checked' = modelSyntaxCalls + modelRuntimeCalls
    /\ pc' = "validate"
    /\ UNCHANGED <<is_valid, syntax_error, syntax_fix_count, runtime_fix_count,
                   execution_result, returned, log, modelSyntaxCalls,
                   modelRuntimeCalls, renderCalls, syntax_checked,
                   notKB>>

\* STEP 6B, line 647: the first syntax check.
Validate ==
    /\ pc = "validate"
    /\ is_valid' = validate_python_syntax(script).is_valid
    /\ syntax_error' = validate_python_syntax(script).syntax_error
    /\ syntax_checked' = script.id
    /\ pc' = "syntax_loop"
    /\ UNCHANGED <<script, nextId, syntax_fix_count, runtime_fix_count,
                   execution_result, returned, log, modelSyntaxCalls,
                   modelRuntimeCalls, renderCalls,
                   files, apiVars, notKB>>

\* Line 649: the while test; line 650 on entry; lines 677-678 on exit.
SyntaxLoopTest ==
    /\ pc = "syntax_loop"
    /\ IF SyntaxLoopCond
       THEN /\ syntax_fix_count' = syntax_fix_count + 1
            /\ pc' = "quick_fix"
            /\ log' = log
       ELSE /\ syntax_fix_count' = syntax_fix_count
            /\ pc' = "render"
            /\ log' = IF ~is_valid THEN log \cup {"Max syntax fixes reached"} ELSE log
    /\ UNCHANGED <<script, nextId, is_valid, syntax_error, runtime_fix_count,
                   execution_result, returned, modelSyntaxCalls,
                   modelRuntimeCalls, renderCalls, syntax_checked,
                   files, apiVars, notKB>>

\* A syntax-fix step that calls the model whatever the rule-based patcher did.
QuickFixThenModelFix ==
    /\ pc = "quick_fix"
    /\ \E was_fixed \in BOOLEAN, v \in BOOLEAN :
         IF was_fixed
         THEN /\ script' = NewText(v)
              /\ nextId' = nextId + 1
         ELSE UNCHANGED <<script, nextId>>
    /\ pc' = "model_syntax_fix"
    /\ UNCHANGED <<is_valid, syntax_error, syntax_fix_count, runtime_fix_count,
                   execution_result, returned, log, modelSyntaxCalls,
                   modelRuntimeCalls, renderCalls, syntax_checked,
                   files, apiVars, notKB>>

\* Line 654: quick_fix_syntax; was_fixed decides between lines 657 and 659-664.
QuickFix ==
    /\ pc = "quick_fix"
    /\ \E was_fixed \in BOOLEAN, v \in BOOLEAN :
         IF was_fixed
         THEN /\ script' = NewText(v)
              /\ nextId' = nextId + 1
              /\ pc' = "revalidate"
         ELSE /\ UNCHANGED <<script, nextId>>
              /\ pc' = "model_syntax_fix"
    /\ UNCHANGED <<is_valid, syntax_error, syntax_fix_count, runtime_fix_count,
                   execution_result, returned, log, modelSyntaxCalls,
                   modelRuntimeCalls, renderCalls, syntax_checked,
                   files, apiVars, notKB>>

\* Lines 659-664: fix_code_with_claude(..., "syntax", ...).
ModelSyntaxFix ==
    /\ pc = "model_syntax_fix"
    /\ \E v \in BOOLEAN : script' = NewText(v)
    /\ nextId' = nextId + 1
    /\ modelSyntaxCalls' = modelSyntaxCalls + 1
    /\ pc' = "revalidate"
    /\ UNCHANGED <<is_valid, syntax_error, syntax_fix_count, runtime_fix_count,
                   execution_result, returned, log, modelRuntimeCalls,
                   renderCalls, syntax_checked,
                   files, apiVars, notKB>>

\* Lines 666-675: save the patched text, check it again, break when valid.
Revalidate ==
    /\ pc = "revalidate"
    /\ files' = WriteFile(SyntaxFixFile(syntax_fix_count), script)
    /\ is_valid' = validate_python_syntax(script).is_valid
    /\ syntax_error' = validate_python_syntax(script).syntax_error
    /\ syntax_checked' = script.id
    /\ pc' = IF validate_python_syntax(script).is_valid THEN "render" ELSE "syntax_loop"
    /\ UNCHANGED <<script, nextId, syntax_fix_count, runtime_fix_count,
                   execution_result, returned, log, modelSyntaxCalls,
                   modelRuntimeCalls, renderCalls,
                   apiVars, notKB>>

\* STEP 7, lines 680-691: the first render, whatever the syntax verdict.
Render ==
    /\ pc = "render"
    /\ files' = WriteFile(CurrentFile, script)
    /\ execution_result' \in RenderOutcomes(script)
    /\ renderCalls' = renderCalls + 1
    /\ pc' = "runtime_loop"
    /\ UNCHANGED <<script, nextId, is_valid, syntax_error, syntax_fix_count,
                   runtime_fix_count, returned, log, modelSyntaxCalls,
                   modelRuntimeCalls, syntax_checked,
                   apiVars, notKB>>

RuntimeFixCountNotBumped == runtime_fix_count

\* Line 698: runtime_fix_count += 1.
RuntimeFixCountBumped == runtime_fix_count + 1

\* STEP 8, line 697: the while test; line 698 on entry.
RuntimeLoopTest ==
    /\ pc = "runtime_loop"
    /\ IF RuntimeLoopCond
       THEN /\ runtime_fix_count' = RuntimeFixCountBumped
            /\ pc' = "model_runtime_fix"
       ELSE /\ runtime_fix_count' = runtime_fix_count
            /\ pc' = "final"
    /\ UNCHANGED <<script, nextId, is_valid, syntax_error, syntax_fix_count,
                   execution_result, returned, log, modelSyntaxCalls,
                   modelRuntimeCalls, renderCalls, syntax_checked,
                   files, apiVars, notKB>>

\* Lines 701-719: fix_code_with_claude(..., "runtime", ...) on the current
\* script and the error text of execution_result; the patch is saved.
ModelRuntimeFix ==
    /\ pc = "model_runtime_fix"
    /\ \E v \in BOOLEAN :
         /\ script' = NewText(v)
         /\ files' = WriteFile(RuntimeFixedFile(runtime_fix_count), NewText(v))
    /\ nextId' = nextId + 1
    /\ modelRuntimeCalls' = modelRuntimeCalls + 1
    /\ pc' = "nested_validate"
    /\ UNCHANGED <<is_valid, syntax_error, syntax_fix_count, runtime_fix_count,
                   execution_result, returned, log, modelSyntaxCalls,
                   renderCalls, syntax_checked,
                   apiVars, notKB>>

\* Lines 721-725: the syntax check of the runtime patch.
NestedValidate ==
    /\ pc = "nested_validate"
    /\ is_valid' = validate_python_syntax(script).is_valid
    /\ syntax_error' = validate_python_syntax(script).syntax_error
    /\ syntax_checked' = script.id
    /\ pc' = IF validate_python_syntax(script).is_valid
             THEN "nested_api" ELSE "nested_quick_fix"
    /\ UNCHANGED <<script, nextId, syntax_fix_count, runtime_fix_count,
                   execution_result, returned, log, modelSyntaxCalls,
                   modelRuntimeCalls, renderCalls,
                   files, apiVars, notKB>>

\* Lines 729-732: quick_fix_syntax, then the check of what it returned (the
\* same text, hence the same verdict, when nothing was fixed).
NestedQuickFix ==
    /\ pc = "nested_quick_fix"
    /\ \E was_fixed \in BOOLEAN, v \in BOOLEAN :
         LET patched == IF was_fixed THEN NewText(v) ELSE script IN
         /\ script' = patched
         /\ nextId' = IF was_fixed THEN nextId + 1 ELSE nextId
         /\ is_valid' = validate_python_syntax(patched).is_valid
         /\ syntax_error' = validate_python_syntax(patched).syntax_error
         /\ syntax_checked' = patched.id
         /\ pc' = IF validate_python_syntax(patched).is_valid
                  THEN "nested_api" ELSE "nested_model_fix"
    /\ UNCHANGED <<syntax_fix_count, runtime_fix_count, execution_result,
                   returned, log, modelSyntaxCalls, modelRuntimeCalls,
                   renderCalls,
                   files, apiVars, notKB>>

\* Where the iteration goes when the model's syntax patch still does not
\* parse: line 747, continue.
AfterNestedFailureRender == "nested_api"

AfterNestedFailureBreak == "final"

AfterNestedFailure == "runtime_loop"

\* Lines 733-747: fix_code_with_claude(..., "syntax", ...) inside the runtime
\* iteration, the check of its output, and the continue when it fails.
NestedModelFix ==
    /\ pc = "nested_model_fix"
    /\ \E v \in BOOLEAN :
         LET patched == NewText(v) IN
         /\ script' = patched
         /\ is_valid' = validate_python_syntax(patched).is_valid
         /\ syntax_error' = validate_python_syntax(patched).syntax_error
         /\ syntax_checked' = patched.id
         /\ pc' = IF validate_python_syntax(patched).is_valid
                  THEN "nested_api" ELSE AfterNestedFailure
         /\ log' = IF validate_python_syntax(patched).is_valid
                   THEN log ELSE log \cup {"Skipping this attempt"}
    /\ nextId' = nextId + 1
    /\ modelSyntaxCalls' = modelSyntaxCalls + 1
    /\ UNCHANGED <<syntax_fix_count, runtime_fix_count, execution_result,
                   returned, modelRuntimeCalls, renderCalls,
                   files, apiVars, notKB>>

\* A gate that ends the run when issues are left that it could not rewrite.
NestedApiGateStopsOnIssues ==
    /\ pc = "nested_api"
    /\ \E outcome \in {"valid", "fixed", "unfixable"}, v \in BOOLEAN :
         /\ script' = ApiGateResult(outcome, v)
         /\ nextId' = IF outcome = "fixed" THEN nextId + 1 ELSE nextId
         /\ is_api_valid' = IF outcome = "valid" THEN "True" ELSE "False"
         /\ fixes_applied' = CASE outcome = "valid" -> fixes_applied
                                [] outcome = "fixed" -> "fixes"
                                [] OTHER -> "empty"
         /\ pc' = IF outcome = "unfixable" THEN "final" ELSE "rerender"
    /\ api_checked' = modelSyntaxCalls + modelRuntimeCalls
    /\ UNCHANGED <<is_valid, syntax_error, syntax_fix_count, runtime_fix_count,
                   execution_result, returned, log, modelSyntaxCalls,
                   modelRuntimeCalls, renderCalls, syntax_checked,
                   files, notKB>>

\* Lines 749-756: the API gate before the re-render.
NestedApiGate ==
    /\ pc = "nested_api"
    /\ \E outcome \in {"valid", "fixed", "unfixable"}, v \in BOOLEAN :
         /\ script' = ApiGateResult(outcome, v)
         /\ nextId' = IF outcome = "fixed" THEN nextId + 1 ELSE nextId
         /\ is_api_valid' = IF outcome = "valid" THEN "True" ELSE "False"
         /\ fixes_applied' = CASE outcome = "valid" -> fixes_applied
                                [] outcome = "fixed" -> "fixes"
                                [] OTHER -> "empty"
    /\ api_checked' = modelSyntaxCalls + modelRuntimeCalls
    /\ pc' = "rerender"
    /\ UNCHANGED <<is_valid, syntax_error, syntax_fix_count, runtime_fix_count,
                   execution_result, returned, log, modelSyntaxCalls,
                   modelRuntimeCalls, renderCalls, syntax_checked,
                   files, notKB>>

\* Lines 758-774: write the script, render it, break on success.
Rerender ==
    /\ pc = "rerender"
    /\ files' = WriteFile(RuntimeFixedFile(runtime_fix_count), script)
    /\ \E r \in RenderOutcomes(script) :
         /\ execution_result' = r
         /\ pc' = IF r.success THEN "final" ELSE "runtime_loop"
    /\ renderCalls' = renderCalls + 1
    /\ UNCHANGED <<script, nextId, is_valid, syntax_error, syntax_fix_count,
                   runtime_fix_count, returned, log, modelSyntaxCalls,
                   modelRuntimeCalls, syntax_checked,
                   apiVars, notKB>>

\* Lines 776-794: save final_scene.py and return.
Final ==
    /\ pc = "final"
    /\ files' = WriteFile(FinalFile, script)
    /\ returned' = [script |-> script, execution_result |-> execution_result]
    /\ pc' = "done"
    /\ UNCHANGED <<script, nextId, is_valid, syntax_error, syntax_fix_count,
                   runtime_fix_count, execution_result, log, modelSyntaxCalls,
                   modelRuntimeCalls, renderCalls, syntax_checked,
                   apiVars, notKB>>

NextKB ==
    \/ ApiGate
    \/ Validate
    \/ SyntaxLoopTest
    \/ QuickFix
    \/ ModelSyntaxFix
    \/ Revalidate
    \/ Render
    \/ RuntimeLoopTest
    \/ ModelRuntimeFix
    \/ NestedValidate
    \/ NestedQuickFix
    \/ NestedModelFix
    \/ NestedApiGate
    \/ Rerender
    \/ Final

Init == InitKB /\ ClientIdle /\ SharedIdle /\ PureIdle

Spec == Init /\ [][NextKB]_vars

\* The runs of Spec in which every call returns and the next statement is
\* executed: no run stops in the middle of the function.
SpecLive == Init /\ [][NextKB]_vars /\ WF_vars(NextKB)

(***************************************************************************)
(* EdulyAnimationClient (Agentic Approach/src/eduly/client.py).            *)
(*                                                                         *)
(* The workspace ws holds scene.py (scene: 0 the boilerplate, n the text   *)
(* after the n-th agent run of the topic) and the rendered videos, a set   *)
(* of [dir, by]: an .mp4 in media/videos/scene/<dir> left by the render of *)
(* topic `by`.  A collaborator call either returns or raises; nothing in   *)
(* animate_single or animate catches, so a raise ends the call ("raised"). *)
(***************************************************************************)
MaxTopics == 2

MaxRequested == 2

MaxIterations == 2

\* Lines 248-251 and 260-263: the output folders looked at, in order.
possible_dirs == <<"480p15", "1920p15">>

\* Sequences over S of length at most n.
SeqUpTo(S, n) == UNION { [1..k -> S] : k \in 0..n }

HasVideo(w, d) == \E v \in w.videos : v.dir = d

\* _check_render_success: some folder of possible_dirs holds an .mp4.
check_render_success(w) ==
    \E i \in 1..Len(possible_dirs) : HasVideo(w, possible_dirs[i])

get_video_path_first_dir_only(w) ==
    IF HasVideo(w, possible_dirs[1])
    THEN CHOOSE v \in w.videos : v.dir = possible_dirs[1]
    ELSE None_

\* _get_video_path: the .mp4 of the first folder of possible_dirs holding one.
get_video_path(w) ==
    LET hits == { i \in 1..Len(possible_dirs) : HasVideo(w, possible_dirs[i]) } IN
    IF hits = {} THEN None_
    ELSE LET first == CHOOSE i \in hits : \A j \in hits : i <= j IN
         CHOOSE v \in w.videos : v.dir = possible_dirs[first]

prepare_workspace_keeps_media == [ws EXCEPT !.scene = 0]

\* _prepare_workspace: every file and folder removed, boilerplate written.
prepare_workspace == [scene |-> 0, videos |-> {}]

\* What one _render_scene run can leave in the workspace for topic t.
RenderEffects(w, t) ==
    { w } \cup
    { [w EXCEPT !.videos = (w.videos \ { v \in w.videos : v.dir = d })
                              \cup { [dir |-> d, by |-> t] }] :
        d \in { possible_dirs[i] : i \in 1..Len(possible_dirs) } }

\* The fields AnimationResult fills in when the caller gives none.
AnimationResultDefaults ==
    [video_path |-> None_, scene_code |-> None_, error_message |-> None_,
     iterations |-> 0]

\* The name used for a topic index: that of the topic, or "Unknown" (-1).
TopicNameOf(idx) == IF idx < nTopics THEN idx ELSE -1

\* format_storyboard_prompt raises for an index outside breakdown.topics
\* (IndexError) and for a storyboard that is None (AttributeError).
PromptRaises(idx, sb) == idx >= nTopics \/ sb = "null"

\* rendered_videos/<sanitized name>_<index>.mp4
OutputFile(name, idx) == [name |-> name, index |-> idx]

RetryKeepsFirstResult(new, old) == old

\* Lines 410 and 542: manim_result = self._render_scene().
RetryRenderResult(new, old) == new

\* What a progress callback can hand back: nothing, or a negative value
\* meant as a request to stop.
CallbackReturns == {"none", "abort"}

\* if on_progress: on_progress(idx, iter, status) -- lines 351-352, 364-365,
\* 378-379, 427-428, 439-440 (animate_single) and 506-507, 519-520, 533-534,
\* 559-560, 571-572 (animate).  What the callback returns is dropped and the
\* method goes on to `next`.
Notify(idx, iter, status, next) ==
    IF on_progress
    THEN \E ret \in CallbackReturns :
           /\ progress' = Append(progress,
                  [topic_index |-> idx, iteration |-> iter, status |-> status])
           /\ aborted' = (aborted \/ ret = "abort")
           /\ cpc' = next
    ELSE UNCHANGED <<progress, aborted>> /\ cpc' = next

AS_LoopCondIgnoresSuccess == iteration < max_iterations

\* Line 376.
AS_LoopCond == ~success /\ iteration < max_iterations

ClientInputs ==
    /\ nTopics \in 0..MaxTopics
    /\ storyboards \in SeqUpTo({"ok", "null"}, MaxTopics)
    /\ max_iterations \in 0..MaxIterations
    /\ on_progress \in BOOLEAN

ClientLocals ==
    /\ progress = <<>>
    /\ aborted = FALSE
    /\ ti = 0
    /\ topic_idx = 0
    /\ topic_name = -1
    /\ iteration = 0
    /\ success = FALSE
    /\ manim_result = None_
    /\ results = <<>>
    /\ renderLog = <<>>
    /\ agentCalls = 0
    /\ renders = 0
    /\ steps = <<>>

\* The workspace as an earlier run can have left it.
WorkspaceBefore ==
    { [scene |-> 0, videos |-> {}],
      [scene |-> 1, videos |-> { [dir |-> possible_dirs[1], by |-> -1] }] }

\* animate_single(breakdown, storyboard, topic_index, max_iterations): the
\* storyboard handed in is storyboards[1].
InitSingle ==
    /\ mode = "single"
    /\ cpc = "as_start"
    /\ ClientInputs
    /\ Len(storyboards) = 1
    /\ \E i \in 0..MaxTopics : topic_indices = <<i>>
    /\ ws \in WorkspaceBefore
    /\ ClientLocals

\* Lines 349-352.
AS_Start ==
    /\ cpc = "as_start"
    /\ topic_idx' = topic_indices[1]
    /\ topic_name' = TopicNameOf(topic_indices[1])
    /\ Notify(topic_indices[1], 0, "Starting animation", "as_prepare")
    /\ UNCHANGED <<steps, clInputs, ti, iteration, success, manim_result, ws, results,
                   renderLog, agentCalls, renders, notClient>>

\* Line 355: _prepare_workspace, which can raise (OSError).
AS_Prepare ==
    /\ cpc = "as_prepare"
    /\ \E raises \in BOOLEAN :
         IF raises
         THEN cpc' = "raised" /\ ws' = ws /\ steps' = steps
         ELSE /\ cpc' = "as_prompt"
              /\ ws' = prepare_workspace
              /\ steps' = Append(steps, "prepare")
    /\ UNCHANGED <<clInputs, ti, topic_idx, topic_name, iteration, success,
                   manim_result, results, renderLog, agentCalls, renders, progress, aborted,
                   notClient>>

\* Lines 358-361: _create_agent and format_storyboard_prompt.
AS_Prompt ==
    /\ cpc = "as_prompt"
    /\ \E raises \in BOOLEAN :
         cpc' = IF raises \/ PromptRaises(topic_idx, storyboards[1])
                THEN "raised" ELSE "as_invoke"
    /\ UNCHANGED <<steps, clInputs, ti, topic_idx, topic_name, iteration, success,
                   manim_result, ws, results, renderLog, agentCalls, renders,
                   progress, aborted,
                   notClient>>

\* Lines 364-369: the first agent run, which writes scene.py.
AS_Invoke ==
    /\ cpc = "as_invoke"
    /\ \E raises \in BOOLEAN :
         IF raises
         THEN /\ Notify(topic_idx, 0, "Running coding agent", "raised")
              /\ UNCHANGED <<ws, agentCalls, steps>>
         ELSE /\ Notify(topic_idx, 0, "Running coding agent", "as_render")
              /\ ws' = [ws EXCEPT !.scene = ws.scene + 1]
              /\ agentCalls' = agentCalls + 1
              /\ steps' = Append(steps, "invoke")
    /\ UNCHANGED <<clInputs, ti, topic_idx, topic_name, iteration, success,
                   manim_result, results, renderLog, renders, notClient>>

\* Lines 372-375: the first render, the check, iteration = 0.
AS_Render ==
    /\ cpc = "as_render"
    /\ \/ /\ cpc' = "raised"
          /\ UNCHANGED <<ws, manim_result, success, renderLog, renders, iteration,
                         steps>>
       \/ \E w \in RenderEffects(ws, topic_idx) :
            /\ ws' = w
            /\ manim_result' = [render |-> renders + 1]
            /\ renders' = renders + 1
            /\ success' = check_render_success(w)
            /\ renderLog' = Append(renderLog, check_render_success(w))
            /\ steps' = Append(steps, "render")
            /\ iteration' = 0
            /\ cpc' = "as_loop"
    /\ UNCHANGED <<clInputs, ti, topic_idx, topic_name, results, agentCalls,
                   progress, aborted,
                   notClient>>

\* Lines 376-377: the while test and iteration += 1.
AS_LoopTest ==
    /\ cpc = "as_loop"
    /\ IF AS_LoopCond
       THEN /\ iteration' = iteration + 1
            /\ Notify(topic_idx, iteration + 1, "Render failed, retrying", "as_fix")
       ELSE /\ iteration' = iteration
            /\ cpc' = "as_collect"
            /\ UNCHANGED <<progress, aborted>>
    /\ UNCHANGED <<steps, clInputs, ti, topic_idx, topic_name, success, manim_result,
                   ws, results, renderLog, agentCalls, renders, notClient>>

\* Lines 381-409: the fix prompt from scene.py and the cleaned stderr, and
\* the agent run on it.
AS_Fix ==
    /\ cpc = "as_fix"
    /\ \E raises \in BOOLEAN :
         IF raises
         THEN cpc' = "raised" /\ UNCHANGED <<ws, agentCalls, steps>>
         ELSE /\ cpc' = "as_rerender"
              /\ ws' = [ws EXCEPT !.scene = ws.scene + 1]
              /\ agentCalls' = agentCalls + 1
              /\ steps' = Append(steps, "invoke")
    /\ UNCHANGED <<clInputs, ti, topic_idx, topic_name, iteration, success,
                   manim_result, results, renderLog, renders, progress, aborted,
                   notClient>>

\* Lines 410-411: the re-render and the check.
AS_Rerender ==
    /\ cpc = "as_rerender"
    /\ \/ /\ cpc' = "raised"
          /\ UNCHANGED <<ws, manim_result, success, renderLog, renders, steps>>
       \/ \E w \in RenderEffects(ws, topic_idx) :
            /\ ws' = w
            /\ manim_result' = RetryRenderResult([render |-> renders + 1], manim_result)
            /\ renders' = renders + 1
            /\ success' = check_render_success(w)
            /\ renderLog' = Append(renderLog, check_render_success(w))
            /\ steps' = Append(steps, "render")
            /\ cpc' = "as_loop"
    /\ UNCHANGED <<clInputs, ti, topic_idx, topic_name, iteration, results,
                   agentCalls, progress, aborted,
                   notClient>>

\* Lines 417-437: the result of a topic whose render check passed; the copy
\* to rendered_videos happens when a video file was found.
FailureResultFirstCode(idx, name, w, iter, mr) ==
    [AnimationResultDefaults EXCEPT
        !.scene_code = IF w.scene > 1 THEN 1 ELSE w.scene,
        !.error_message = mr,
        !.iterations = iter]
    @@ [topic_index |-> idx, topic_name |-> name, success |-> FALSE]

SuccessResult(idx, name, w, iter) ==
    LET video_path == get_video_path(w) IN
    [AnimationResultDefaults EXCEPT
        !.video_path = IF video_path = None_ THEN None_ ELSE OutputFile(name, idx),
        !.scene_code = w.scene,
        !.iterations = iter]
    @@ [topic_index |-> idx, topic_name |-> name, success |-> TRUE]

\* Lines 438-449 (and 570-581): the result of a topic that did not render.
FailureResult(idx, name, w, iter, mr) ==
    [AnimationResultDefaults EXCEPT
        !.scene_code = w.scene,
        !.error_message = mr,
        !.iterations = iter]
    @@ [topic_index |-> idx, topic_name |-> name, success |-> FALSE]

\* Lines 413-449: collect the result and return it; shutil.copy can raise.
AS_Collect ==
    /\ cpc = "as_collect"
    /\ \/ /\ success
          /\ get_video_path(ws) # None_
          /\ cpc' = "raised"
          /\ UNCHANGED <<results, progress, aborted>>
       \/ /\ Notify(topic_idx, iteration,
                    IF success THEN "Success" ELSE "Failed", "returned")
          /\ results' = <<IF success
                          THEN SuccessResult(topic_idx, topic_name, ws, iteration)
                          ELSE FailureResult(topic_idx, topic_name, ws, iteration,
                                             manim_result)>>
    /\ UNCHANGED <<steps, clInputs, ti, topic_idx, topic_name, iteration, success,
                   manim_result, ws, renderLog, agentCalls, renders, notClient>>

(***************************************************************************)
(* animate: the for loop over topic_indices, lines 478-583.                *)
(***************************************************************************)
\* A retry loop that goes on after a render that passed the check.
AN_LoopCondIgnoresSuccess == iteration < max_iterations

\* Line 531.
AN_LoopCond == ~success /\ iteration < max_iterations

\* Lines 485-501: what is appended for an index with no storyboard or topic.
MissingResult(idx, name, text) ==
    [AnimationResultDefaults EXCEPT !.error_message = [text |-> text]]
    @@ [topic_index |-> idx, topic_name |-> name, success |-> FALSE]

PrependResult(rs, r) == <<r>> \o rs

\* results.append(AnimationResult(...)): lines 487, 495, 562 and 574.
AppendResult(rs, r) == Append(rs, r)

NoStoryboardOffByOne(idx) == idx > Len(storyboards)

\* Line 485: topic_idx >= len(storyboards).
NoStoryboard(idx) == idx >= Len(storyboards)

InitBatch ==
    /\ mode = "batch"
    /\ cpc = "an_for"
    /\ ClientInputs
    /\ topic_indices \in SeqUpTo(0..MaxTopics, MaxRequested)
    /\ ws \in WorkspaceBefore
    /\ ClientLocals

\* Lines 484-507 and 583: the head of the for loop with its two guards, the
\* start of the topic, and the return once topic_indices is used up.
AN_For ==
    /\ cpc = "an_for"
    /\ IF ti >= Len(topic_indices)
       THEN /\ cpc' = "returned"
            /\ UNCHANGED <<ti, topic_idx, topic_name, results, progress, aborted>>
       ELSE LET idx == topic_indices[ti + 1] IN
            /\ topic_idx' = idx
            /\ IF NoStoryboard(idx)
               THEN /\ results' = AppendResult(results,
                          MissingResult(idx, TopicNameOf(idx), "No storyboard found"))
                    /\ ti' = ti + 1
                    /\ cpc' = "an_for"
                    /\ UNCHANGED <<topic_name, progress, aborted>>
               ELSE IF idx >= nTopics
               THEN /\ results' = AppendResult(results,
                          MissingResult(idx, -1, "No topic found in breakdown"))
                    /\ ti' = ti + 1
                    /\ cpc' = "an_for"
                    /\ UNCHANGED <<topic_name, progress, aborted>>
               ELSE /\ topic_name' = idx
                    /\ Notify(idx, 0, "Starting animation", "an_prepare")
                    /\ UNCHANGED <<ti, results>>
    /\ renderLog' = <<>>
    /\ steps' = <<>>
    /\ agentCalls' = 0
    /\ UNCHANGED <<clInputs, iteration, success, manim_result, ws, renders,
                   notClient>>

\* Line 510: _prepare_workspace.
AN_Prepare ==
    /\ cpc = "an_prepare"
    /\ \E raises \in BOOLEAN :
         IF raises
         THEN cpc' = "raised" /\ ws' = ws /\ steps' = steps
         ELSE /\ cpc' = "an_prompt"
              /\ ws' = prepare_workspace
              /\ steps' = Append(steps, "prepare")
    /\ UNCHANGED <<clInputs, ti, topic_idx, topic_name, iteration, success,
                   manim_result, results, renderLog, agentCalls, renders, progress, aborted,
                   notClient>>

\* Lines 513-516: _create_agent and format_storyboard_prompt.
AN_Prompt ==
    /\ cpc = "an_prompt"
    /\ \E raises \in BOOLEAN :
         cpc' = IF \/ raises
                   \/ topic_idx >= Len(storyboards)
                   \/ PromptRaises(topic_idx, storyboards[topic_idx + 1])
                THEN "raised" ELSE "an_invoke"
    /\ UNCHANGED <<steps, clInputs, ti, topic_idx, topic_name, iteration, success,
                   manim_result, ws, results, renderLog, agentCalls, renders,
                   progress, aborted,
                   notClient>>

\* Lines 519-524: the first agent run of the topic.
AN_Invoke ==
    /\ cpc = "an_invoke"
    /\ \E raises \in BOOLEAN :
         IF raises
         THEN /\ Notify(topic_idx, 0, "Running coding agent", "raised")
              /\ UNCHANGED <<ws, agentCalls, steps>>
         ELSE /\ Notify(topic_idx, 0, "Running coding agent", "an_render")
              /\ ws' = [ws EXCEPT !.scene = ws.scene + 1]
              /\ agentCalls' = agentCalls + 1
              /\ steps' = Append(steps, "invoke")
    /\ UNCHANGED <<clInputs, ti, topic_idx, topic_name, iteration, success,
                   manim_result, results, renderLog, renders, notClient>>

\* Lines 527-530: the first render, the check, iteration = 0.
AN_Render ==
    /\ cpc = "an_render"
    /\ \/ /\ cpc' = "raised"
          /\ UNCHANGED <<ws, manim_result, success, renderLog, renders, iteration,
                         steps>>
       \/ \E w \in RenderEffects(ws, topic_idx) :
            /\ ws' = w
            /\ manim_result' = [render |-> renders + 1]
            /\ renders' = renders + 1
            /\ success' = check_render_success(w)
            /\ renderLog' = Append(renderLog, check_render_success(w))
            /\ steps' = Append(steps, "render")
            /\ iteration' = 0
            /\ cpc' = "an_loop"
    /\ UNCHANGED <<clInputs, ti, topic_idx, topic_name, results, agentCalls,
                   progress, aborted,
                   notClient>>

\* Lines 531-532: the while test and iteration += 1.
AN_LoopTest ==
    /\ cpc = "an_loop"
    /\ IF AN_LoopCond
       THEN /\ iteration' = iteration + 1
            /\ Notify(topic_idx, iteration + 1, "Render failed, retrying", "an_fix")
       ELSE /\ iteration' = iteration
            /\ cpc' = "an_collect"
            /\ UNCHANGED <<progress, aborted>>
    /\ UNCHANGED <<steps, clInputs, ti, topic_idx, topic_name, success, manim_result,
                   ws, results, renderLog, agentCalls, renders, notClient>>

\* Lines 536-541: the raw stderr goes back to the agent.
AN_Fix ==
    /\ cpc = "an_fix"
    /\ \E raises \in BOOLEAN :
         IF raises
         THEN cpc' = "raised" /\ UNCHANGED <<ws, agentCalls, steps>>
         ELSE /\ cpc' = "an_rerender"
              /\ ws' = [ws EXCEPT !.scene = ws.scene + 1]
              /\ agentCalls' = agentCalls + 1
              /\ steps' = Append(steps, "invoke")
    /\ UNCHANGED <<clInputs, ti, topic_idx, topic_name, iteration, success,
                   manim_result, results, renderLog, renders, progress, aborted,
                   notClient>>

\* Lines 542-543: the re-render and the check.
AN_Rerender ==
    /\ cpc = "an_rerender"
    /\ \/ /\ cpc' = "raised"
          /\ UNCHANGED <<ws, manim_result, success, renderLog, renders, steps>>
       \/ \E w \in RenderEffects(ws, topic_idx) :
            /\ ws' = w
            /\ manim_result' = RetryRenderResult([render |-> renders + 1], manim_result)
            /\ renders' = renders + 1
            /\ success' = check_render_success(w)
            /\ renderLog' = Append(renderLog, check_render_success(w))
            /\ steps' = Append(steps, "render")
            /\ cpc' = "an_loop"
    /\ UNCHANGED <<clInputs, ti, topic_idx, topic_name, iteration, results,
                   agentCalls, progress, aborted,
                   notClient>>

\* Lines 545-581: collect the topic's result and append it; shutil.copy can
\* raise.  The for loop then takes the next index.
AN_Collect ==
    /\ cpc = "an_collect"
    /\ \/ /\ success
          /\ get_video_path(ws) # None_
          /\ cpc' = "raised"
          /\ UNCHANGED <<results, ti, progress, aborted>>
       \/ /\ Notify(topic_idx, iteration,
                    IF success THEN "Success" ELSE "Failed", "an_for")
          /\ ti' = ti + 1
          /\ results' = AppendResult(results,
                IF success
                THEN SuccessResult(topic_idx, topic_name, ws, iteration)
                ELSE FailureResult(topic_idx, topic_name, ws, iteration,
                                   manim_result))
    /\ UNCHANGED <<steps, clInputs, topic_idx, topic_name, iteration, success,
                   manim_result, ws, renderLog, agentCalls, renders, notClient>>

NextClient ==
    \/ AS_Start
    \/ AS_Prepare
    \/ AS_Prompt
    \/ AS_Invoke
    \/ AS_Render
    \/ AS_LoopTest
    \/ AS_Fix
    \/ AS_Rerender
    \/ AS_Collect
    \/ AN_For
    \/ AN_Prepare
    \/ AN_Prompt
    \/ AN_Invoke
    \/ AN_Render
    \/ AN_LoopTest
    \/ AN_Fix
    \/ AN_Rerender
    \/ AN_Collect

InitClient == (InitSingle \/ InitBatch) /\ KBIdle /\ SharedIdle /\ PureIdle

SpecClient == InitClient /\ [][NextClient]_vars

(***************************************************************************)
(* Both programs: a behaviour is a run of generate_manim_animation or a    *)
(* call of the client.                                                     *)
(***************************************************************************)
InitBoth == Init \/ InitClient

NextBoth == NextKB \/ NextClient

SpecBoth == InitBoth /\ [][NextBoth]_vars

(***************************************************************************)
(* Two calls of animate_single in flight on one client, hence on one       *)
(* animation_workspace (two threads, or two processes given the same       *)
(* workspace path).  client.py takes no lock and makes no per-call folder, *)
(* so the steps of the two calls interleave freely.  The steps are those   *)
(* of animate_single for calls whose collaborators do not raise.           *)
(***************************************************************************)
Callers == {"a", "b"}

\* The call has done its _prepare_workspace and not yet built its result.
Owns(p) ==
    calls[p].pc \in {"invoke", "render", "loop", "fix", "rerender", "collect"}

InitShared ==
    /\ calls = [p \in Callers |->
                  [pc |-> "prepare", iteration |-> 0, success |-> FALSE,
                   video |-> None_]]
    /\ shared_ws \in WorkspaceBefore
    /\ KBIdle
    /\ ClientIdle
    /\ PureIdle

\* Line 355.
SH_Prepare(p) ==
    /\ calls[p].pc = "prepare"
    /\ shared_ws' = prepare_workspace
    /\ calls' = [calls EXCEPT ![p].pc = "invoke"]
    /\ UNCHANGED <<kbVars, clVars, pfVars>>

\* Lines 358-369: the agent writes scene.py.
SH_Invoke(p) ==
    /\ calls[p].pc = "invoke"
    /\ shared_ws' = [shared_ws EXCEPT !.scene = shared_ws.scene + 1]
    /\ calls' = [calls EXCEPT ![p].pc = "render"]
    /\ UNCHANGED <<kbVars, clVars, pfVars>>

\* Lines 372-375.
SH_Render(p) ==
    /\ calls[p].pc = "render"
    /\ \E w \in RenderEffects(shared_ws, p) :
         /\ shared_ws' = w
         /\ calls' = [calls EXCEPT ![p].pc = "loop",
                                   ![p].success = check_render_success(w),
                                   ![p].iteration = 0]
    /\ UNCHANGED <<kbVars, clVars, pfVars>>

\* Lines 376-377, with max_iterations = MaxIterations.
SH_LoopTest(p) ==
    /\ calls[p].pc = "loop"
    /\ calls' = IF ~calls[p].success /\ calls[p].iteration < MaxIterations
                THEN [calls EXCEPT ![p].pc = "fix",
                                   ![p].iteration = calls[p].iteration + 1]
                ELSE [calls EXCEPT ![p].pc = "collect"]
    /\ UNCHANGED <<shared_ws, kbVars, clVars, pfVars>>

\* Lines 381-409: scene.py is read, and written by the agent.
SH_Fix(p) ==
    /\ calls[p].pc = "fix"
    /\ shared_ws' = [shared_ws EXCEPT !.scene = shared_ws.scene + 1]
    /\ calls' = [calls EXCEPT ![p].pc = "rerender"]
    /\ UNCHANGED <<kbVars, clVars, pfVars>>

\* Lines 410-411.
SH_Rerender(p) ==
    /\ calls[p].pc = "rerender"
    /\ \E w \in RenderEffects(shared_ws, p) :
         /\ shared_ws' = w
         /\ calls' = [calls EXCEPT ![p].pc = "loop",
                                   ![p].success = check_render_success(w)]
    /\ UNCHANGED <<kbVars, clVars, pfVars>>

\* Lines 413-449: scene.py and the video are read for the result.
SH_Collect(p) ==
    /\ calls[p].pc = "collect"
    /\ calls' = [calls EXCEPT ![p].pc = "returned",
                              ![p].video = IF calls[p].success
                                           THEN get_video_path(shared_ws)
                                           ELSE None_]
    /\ UNCHANGED <<shared_ws, kbVars, clVars, pfVars>>

NextShared ==
    \/ \E p \in Callers : SH_Prepare(p)
    \/ \E p \in Callers : SH_Invoke(p)
    \/ \E p \in Callers : SH_Render(p)
    \/ \E p \in Callers : SH_LoopTest(p)
    \/ \E p \in Callers : SH_Fix(p)
    \/ \E p \in Callers : SH_Rerender(p)
    \/ \E p \in Callers : SH_Collect(p)

SpecShared == InitShared /\ [][NextShared]_vars

(***************************************************************************)
(* auto_fix_deprecated_api (KB Approach/error_handler.py, lines 51-85).    *)
(*                                                                         *)
(* A source text is a sequence of lexical tokens: identifiers ("w" stands  *)
(* for any identifier that is none of the named ones), the punctuation the *)
(* patterns look at, and the camera chain as one token.  Whitespace is     *)
(* where Python needs it and nowhere else.                                 *)
(***************************************************************************)
MaxChunks == 5

CameraFrameAnimate == "self.camera.frame.animate"

CameraAnimate == "self.camera.animate"

\* The tokens \w+ matches as a whole.
IsWord(t) == t \in {"w", "ShowCreation", "MyShowCreation", "Create", "ApplyMethod", "animate"}

\* t in piece: the text t occurs in the piece, which is t itself or the
\* longer identifier that holds the name ShowCreation.
Contains(piece, t) ==
    piece = t \/ (piece = "MyShowCreation" /\ t = "ShowCreation")

\* code.count(t): the occurrences of the text t, inside longer words too.
Count(code, t) == Cardinality({ i \in 1..Len(code) : Contains(code[i], t) })

\* A substitution that stops after the first match.
SubFirstToken(code, old, new) ==
    [i \in 1..Len(code) |->
        IF code[i] = old /\ \A j \in 1..(i - 1) : code[j] # old THEN new ELSE code[i]]

\* re.sub(old, new, code) for a pattern that matches exactly the token old.
SubToken(code, old, new) ==
    [i \in 1..Len(code) |-> IF code[i] = old THEN new ELSE code[i]]

\* Where a match of r'ApplyMethod\((\w+)\.(\w+),\s*([^)]+)\)' that starts at
\* token i ends (the index of its closing parenthesis), 0 when there is no
\* match at i.  [^)]+ takes at least one token and stops before the first
\* ")" that follows.
ApplyMethodMatchEnd(code, i) ==
    IF /\ i + 7 <= Len(code)
       /\ code[i] = "ApplyMethod"
       /\ code[i + 1] = "("
       /\ IsWord(code[i + 2])
       /\ code[i + 3] = "."
       /\ IsWord(code[i + 4])
       /\ code[i + 5] = ","
       /\ code[i + 6] # ")"
    THEN LET closing == { j \in (i + 7)..Len(code) : code[j] = ")" } IN
         IF closing = {} THEN 0
         ELSE CHOOSE j \in closing : \A k \in closing : j <= k
    ELSE 0

\* replace_apply_method: f"{obj}.animate.{method}({args})"
replace_apply_method(obj, method, args) ==
    <<obj, ".", "animate", ".", method, "(">> \o args \o <<")">>

RECURSIVE SubApplyMethodFrom(_, _)
\* re.sub(apply_method_pattern, replace_apply_method, code) from token i on:
\* leftmost matches, none overlapping, the replacements not scanned again.
SubApplyMethodFrom(code, i) ==
    IF i > Len(code) THEN <<>>
    ELSE LET j == ApplyMethodMatchEnd(code, i) IN
         IF j = 0
         THEN <<code[i]>> \o SubApplyMethodFrom(code, i + 1)
         ELSE replace_apply_method(code[i + 2], code[i + 4],
                                   SubSeq(code, i + 6, j - 1))
              \o SubApplyMethodFrom(code, j + 1)

RECURSIVE FindAllApplyMethodFrom(_, _)
\* len(re.findall(apply_method_pattern, code)) from token i on.
FindAllApplyMethodFrom(code, i) ==
    IF i > Len(code) THEN 0
    ELSE LET j == ApplyMethodMatchEnd(code, i) IN
         IF j = 0 THEN FindAllApplyMethodFrom(code, i + 1)
         ELSE 1 + FindAllApplyMethodFrom(code, j + 1)

\* MANIM_API_COMPATIBILITY: the deprecated names in the order of the table
\* (each pattern matches the name as a whole word), then the camera pattern.
CompatibilityPatterns ==
    <<"ShowCreation", "ApplyMethod", "ShowPassingFlash", "TransformFromCopy",
      CameraFrameAnimate>>

\* The replacement the table gives for a pattern.
ReplaceWith(pattern) ==
    CASE pattern = "ShowCreation" -> "Create"
      [] pattern = "ApplyMethod" -> ".animate"
      [] pattern = "ShowPassingFlash" -> "ShowPassingFlash"
      [] pattern = "TransformFromCopy" -> "TransformFromCopy"
      [] OTHER -> CameraAnimate

RECURSIVE IssuesFrom(_, _)
\* The issues of the patterns from the k-th on: for each pattern in turn, one
\* issue per match, in the order of the text.  An issue stands for the three
\* lines the code appends ("Line n: ...", "Found: ...", "Replace with: ...").
IssuesFrom(code, k) ==
    IF k > Len(CompatibilityPatterns) THEN <<>>
    ELSE LET pattern == CompatibilityPatterns[k]
             found(t) == t = pattern
             matches == SelectSeq(code, found)
         IN [i \in 1..Len(matches) |->
                [found |-> pattern, replace_with |-> ReplaceWith(pattern)]]
            \o IssuesFrom(code, k + 1)

\* validate_manim_api(code): (is_valid, issues)
validate_manim_api(code) ==
    [is_valid |-> IssuesFrom(code, 1) = <<>>, issues |-> IssuesFrom(code, 1)]

\* auto_fix_deprecated_api(code): (code, fixes_applied).
auto_fix_deprecated_api(original_code) ==
    LET show == Count(original_code, "ShowCreation") > 0
        code1 == IF show THEN SubToken(original_code, "ShowCreation", "Create")
                 ELSE original_code
        fixes1 == IF show
                  THEN <<[fix |-> "ShowCreation -> Create",
                          count |-> Count(original_code, "ShowCreation")]>>
                  ELSE <<>>
        camera == Count(code1, CameraFrameAnimate) > 0
        code2 == IF camera THEN SubToken(code1, CameraFrameAnimate, CameraAnimate)
                 ELSE code1
        fixes2 == IF camera
                  THEN <<[fix |-> "self.camera.frame.animate -> self.camera.animate",
                          count |-> Count(original_code, CameraFrameAnimate)]>>
                  ELSE <<>>
        new_code == SubApplyMethodFrom(code2, 1)
        apply == FindAllApplyMethodFrom(code2, 1) > 0 /\ new_code # code2
        fixes3 == IF apply
                  THEN <<[fix |-> "ApplyMethod -> .animate syntax",
                          count |-> FindAllApplyMethodFrom(code2, 1)]>>
                  ELSE <<>>
    IN  [code |-> IF apply THEN new_code ELSE code2,
         fixes_applied |-> fixes1 \o fixes2 \o fixes3]

\* The pieces the source texts under study are put together from: the
\* deprecated names, the opening of an ApplyMethod call up to its comma, an
\* identifier, an identifier of the program that holds a deprecated name,
\* and the two parentheses.
SourceChunks ==
    { <<"ShowCreation">>, <<"MyShowCreation">>, <<CameraFrameAnimate>>,
      <<"ApplyMethod", "(", "w", ".", "w", ",">>,
      <<"w">>, <<"(">>, <<")">> }

RECURSIVE Flatten(_)
Flatten(ss) == IF ss = <<>> THEN <<>> ELSE Head(ss) \o Flatten(Tail(ss))

\* The source texts put together from at most n pieces.
Sources(n) == { Flatten(cs) : cs \in SeqUpTo(SourceChunks, n) }

InitApiFix ==
    /\ fn = "auto_fix_deprecated_api"
    /\ \E code \in Sources(MaxChunks) : fn_args = [code |-> code]
    /\ fn_ret = None_
    /\ fn_calls = 0
    /\ KBIdle
    /\ ClientIdle
    /\ SharedIdle

\* code, fixes = auto_fix_deprecated_api(code)
ApplyApiFix ==
    /\ fn = "auto_fix_deprecated_api"
    /\ fn_calls = 0
    /\ fn_ret' = auto_fix_deprecated_api(fn_args.code)
    /\ fn_calls' = 1
    /\ UNCHANGED <<fn, fn_args, kbVars, clVars, shVars>>

\* The same call once more, on the text the first call returned.
ReapplyApiFix ==
    /\ fn = "auto_fix_deprecated_api"
    /\ fn_calls = 1
    /\ fn_args' = [code |-> fn_ret.code]
    /\ fn_ret' = auto_fix_deprecated_api(fn_ret.code)
    /\ fn_calls' = 2
    /\ UNCHANGED <<fn, kbVars, clVars, shVars>>

NextApiFix == ApplyApiFix \/ ReapplyApiFix

SpecApiFix == InitApiFix /\ [][NextApiFix]_vars

(***************************************************************************)
(* quick_fix_syntax (KB Approach/error_handler.py, lines 106-162) and the  *)
(* error text validate_python_syntax (lines 92-103) hands to it.           *)
(*                                                                         *)
(* A source text is a sequence of lines, a line a sequence of pieces: one  *)
(* character each for the parentheses, brackets, quotes and the blank,     *)
(* "x" for any other character, and a run of letters as one piece where    *)
(* the text spells out part of a message.  An error text is               *)
(*   "SyntaxError at line {lineno}: {msg}\n  {text}\n  ^"                  *)
(* kept as [lineno, msg, text]: lineno 0 is a text without "line N"        *)
(* ("Parse error: ..."), text <<>> an error without the echoed line.       *)
(***************************************************************************)
MaxLines == 2

MaxLineChunks == 2

\* "'(' was never closed"
NeverClosedParen == <<"'", "(", "'", " ", "was never closed">>

\* "unmatched ')'"
UnmatchedParen == <<"unmatched", " ", "'", ")", "'">>

\* "'[' was never closed"
NeverClosedBracket == <<"'", "[", "'", " ", "was never closed">>

\* "unterminated string"
UnterminatedString == <<"unterminated string">>

\* "EOL while scanning"
EOLWhileScanning == <<"EOL while scanning">>

\* The messages of the errors quick_fix_syntax has a rule for.
FixableMessages ==
    { NeverClosedParen, UnmatchedParen, NeverClosedBracket, UnterminatedString,
      EOLWhileScanning }

\* Messages of other categories: "invalid syntax", "'{' was never closed".
OtherMessages ==
    { <<"invalid syntax">>, <<"'", "{", "'", " ", "was never closed">> }

\* marker in text
Occurs(marker, text) ==
    \E i \in 0..(Len(text) - Len(marker)) :
        \A k \in 1..Len(marker) : text[i + k] = marker[k]

\* marker in error
InError(marker, error) == Occurs(marker, error.msg) \/ Occurs(marker, error.text)

RECURSIVE rstrip(_)
\* line.rstrip()
rstrip(line) ==
    IF line = <<>> THEN <<>>
    ELSE IF line[Len(line)] = " " THEN rstrip(SubSeq(line, 1, Len(line) - 1))
    ELSE line

\* c * n
Repeat(c, n) == [i \in 1..n |-> c]

RECURSIVE RemoveFirst(_, _, _)
\* line.replace(c, '', n): the first n occurrences of c are dropped.
RemoveFirst(line, c, n) ==
    IF n = 0 \/ line = <<>> THEN line
    ELSE IF Head(line) = c THEN RemoveFirst(Tail(line), c, n - 1)
    ELSE <<Head(line)>> \o RemoveFirst(Tail(line), c, n)

\* re.search(r'line (\d+)', error) matched and 0 <= line_num < len(lines).
LineInRange(code, error) == error.lineno >= 1 /\ error.lineno <= Len(code)

NotFixed(code) == [code |-> code, was_fixed |-> FALSE]

\* A patch that adds the new line after the reported one.
FixedLineInserted(code, n, new_line) ==
    [code |-> SubSeq(code, 1, n) \o <<new_line>> \o SubSeq(code, n + 1, Len(code)),
     was_fixed |-> TRUE]

\* A patch that is reported although the line is left as it was.
FixedLineKept(code, n, new_line) == [code |-> code, was_fixed |-> TRUE]

\* lines[line_num] = new_line; return '\n'.join(lines), True
FixedLine(code, n, new_line) ==
    [code |-> [code EXCEPT ![n] = new_line], was_fixed |-> TRUE]

\* Lines 109-128.
ParenRule(code, error) ==
    IF /\ InError(NeverClosedParen, error) \/ InError(UnmatchedParen, error)
       /\ LineInRange(code, error)
    THEN LET line == code[error.lineno]
             opens == Count(line, "(")
             closes == Count(line, ")")
         IN  IF opens > closes
             THEN FixedLine(code, error.lineno,
                            rstrip(line) \o Repeat(")", opens - closes))
             ELSE IF closes > opens
             THEN FixedLine(code, error.lineno,
                            RemoveFirst(line, ")", closes - opens))
             ELSE NotFixed(code)
    ELSE NotFixed(code)

\* Lines 130-144.
BracketRule(code, error) ==
    IF InError(NeverClosedBracket, error) /\ LineInRange(code, error)
    THEN LET line == code[error.lineno]
             opens == Count(line, "[")
             closes == Count(line, "]")
         IN  IF opens > closes
             THEN FixedLine(code, error.lineno,
                            rstrip(line) \o Repeat("]", opens - closes))
             ELSE NotFixed(code)
    ELSE NotFixed(code)

\* Lines 146-160.
StringRule(code, error) ==
    IF /\ InError(UnterminatedString, error) \/ InError(EOLWhileScanning, error)
       /\ LineInRange(code, error)
    THEN LET line == code[error.lineno] IN
         IF Count(line, "\"") % 2 = 1
         THEN FixedLine(code, error.lineno, rstrip(line) \o <<"\"">>)
         ELSE IF Count(line, "'") % 2 = 1
         THEN FixedLine(code, error.lineno, rstrip(line) \o <<"'">>)
         ELSE NotFixed(code)
    ELSE NotFixed(code)

\* quick_fix_syntax(code, error): (fixed_code, was_fixed).  Each rule
\* returns when it changed a line; otherwise the next rule is tried, and
\* line 162 returns the code as it came.
quick_fix_syntax(code, error) ==
    IF ParenRule(code, error).was_fixed THEN ParenRule(code, error)
    ELSE IF BracketRule(code, error).was_fixed THEN BracketRule(code, error)
    ELSE IF StringRule(code, error).was_fixed THEN StringRule(code, error)
    ELSE NotFixed(code)

\* What the line under study is put together from: single characters, a
\* closed call in front of further text, and the words of a message quoted
\* in the source.
LineChunks ==
    { <<"(">>, <<")">>, <<"[">>, <<"]">>, <<"\"">>, <<"'">>, <<"x">>, <<" ">>,
      <<"(", ")", "x">>, UnmatchedParen }

\* The lines put together from at most k pieces of LineChunks.
Lines(k) == { Flatten(cs) : cs \in SeqUpTo(LineChunks, k) }

\* The lines around the line under study.
ContextLines == { <<"x">>, <<"x", "(">> }

\* Source texts of up to maxLines lines, one of them any line of Lines(k).
Codes(maxLines, k) ==
    UNION { { [i \in 1..n |-> IF i = at THEN line ELSE ctx[i]] :
                at \in 1..n, line \in Lines(k), ctx \in [1..n -> ContextLines] } :
            n \in 1..maxLines }

\* The error texts for `code`: any message, any line number (none, inside
\* the text, past its end), with or without the echo of that line.
ErrorsFor(code) ==
    { [lineno |-> n, msg |-> msg, text |-> text] :
        n \in 0..(Len(code) + 1),
        msg \in FixableMessages \cup OtherMessages,
        text \in {<<>>} \cup { code[i] : i \in 1..Len(code) } }

InitQuickFix ==
    /\ fn = "quick_fix_syntax"
    /\ \E code \in Codes(MaxLines, MaxLineChunks) : \E error \in ErrorsFor(code) :
         /\ error.text # <<>> => (LineInRange(code, error)
                                  /\ error.text = code[error.lineno])
         /\ fn_args = [code |-> code, error |-> error]
    /\ fn_ret = None_
    /\ fn_calls = 0
    /\ KBIdle
    /\ ClientIdle
    /\ SharedIdle

\* script, was_fixed = quick_fix_syntax(script, syntax_error)
ApplyQuickFix ==
    /\ fn = "quick_fix_syntax"
    /\ fn_calls = 0
    /\ fn_ret' = quick_fix_syntax(fn_args.code, fn_args.error)
    /\ fn_calls' = 1
    /\ UNCHANGED <<fn, fn_args, kbVars, clVars, shVars>>

NextQuickFix == ApplyQuickFix

SpecQuickFix == InitQuickFix /\ [][NextQuickFix]_vars

(***************************************************************************)
(* The error summary of execute_manim_script: what the failure branch      *)
(* makes of the renderer's stderr and stdout.  Texts are sequences of      *)
(* characters, so that the code's character counts are the model's.        *)
(***************************************************************************)
MaxOutChunks == 3

SyntaxContextChars == 200
NameContextChars == 500
MaxErrorLines == 10
MinErrorChars == 50
TailChars == 1000

TracebackMarker == <<"T", "r", "a", "c", "e", "b", "a", "c", "k">>
SyntaxErrorMarker == <<"S", "y", "n", "t", "a", "x", "E", "r", "r", "o", "r">>
NameErrorMarker == <<"N", "a", "m", "e", "E", "r", "r", "o", "r">>
ErrorColonMarker == <<"E", "r", "r", "o", "r", ":">>
LowerErrorColonMarker == <<"e", "r", "r", "o", "r", ":">>
ErrorWord == <<"E", "r", "r", "o", "r">>
LowerErrorWord == <<"e", "r", "r", "o", "r">>

\* text.lower(), on the letters the texts under study are written with
lower(text) ==
    [i \in 1..Len(text) |->
        CASE text[i] = "A" -> "a"
          [] text[i] = "E" -> "e"
          [] text[i] = "N" -> "n"
          [] text[i] = "S" -> "s"
          [] text[i] = "T" -> "t"
          [] OTHER -> text[i]]

\* text.find(marker): the offset of the first occurrence, -1 when none
find(text, marker) ==
    LET at == { i \in 0..(Len(text) - Len(marker)) :
                  \A k \in 1..Len(marker) : text[i + k] = marker[k] }
    IN IF at = {} THEN -1 ELSE CHOOSE i \in at : \A j \in at : i <= j

\* text[start:], start >= 0
SliceFrom(text, start) == SubSeq(text, start + 1, Len(text))

\* text[-n:]
LastChars(text, n) ==
    SubSeq(text, IF Len(text) > n THEN Len(text) - n + 1 ELSE 1, Len(text))

\* text.split('\n')
split_lines(text) ==
    LET nl == { i \in 1..Len(text) : text[i] = "\n" }
        n == Cardinality(nl) + 1
        end(k) == IF k = 0 THEN 0
                  ELSE IF k = n THEN Len(text) + 1
                  ELSE CHOOSE p \in nl : Cardinality({ q \in nl : q < p }) = k - 1
    IN [k \in 1..n |-> SubSeq(text, end(k - 1) + 1, end(k) - 1)]

RECURSIVE join_lines(_)
\* "\n".join(lines)
join_lines(lines) ==
    IF lines = <<>> THEN <<>>
    ELSE IF Len(lines) = 1 THEN lines[1]
    ELSE lines[1] \o <<"\n">> \o join_lines(Tail(lines))

\* error_output = result.stderr + "\n" + result.stdout
error_output(stderr, stdout) == stderr \o <<"\n">> \o stdout

\* 'error' in line.lower() or 'Error' in line
IsErrorLine(line) == Occurs(LowerErrorWord, lower(line)) \/ Occurs(ErrorWord, line)

\* [line for line in error_output.split('\n') if ...]
error_lines(out) == SelectSeq(split_lines(out), IsErrorLine)

\* error_lines[-10:]
LastLines(lines) ==
    SubSeq(lines, IF Len(lines) > MaxErrorLines THEN Len(lines) - MaxErrorLines + 1 ELSE 1,
           Len(lines))

\* A chain that looks for the generic marker before the traceback marker.
StrategyGenericFirst(out) ==
    IF Occurs(ErrorColonMarker, out) \/ Occurs(LowerErrorColonMarker, lower(out))
    THEN "error_lines"
    ELSE IF Occurs(TracebackMarker, out) THEN "traceback"
    ELSE IF Occurs(SyntaxErrorMarker, out) THEN "syntax"
    ELSE IF Occurs(NameErrorMarker, out) THEN "name"
    ELSE "none"

\* The branch of the if / elif chain that is taken ("none": no branch).
Strategy(out) ==
    IF Occurs(TracebackMarker, out) THEN "traceback"
    ELSE IF Occurs(SyntaxErrorMarker, out) THEN "syntax"
    ELSE IF Occurs(NameErrorMarker, out) THEN "name"
    ELSE IF Occurs(ErrorColonMarker, out) \/ Occurs(LowerErrorColonMarker, lower(out))
         THEN "error_lines"
    ELSE "none"

\* text[max(0, text.find(marker) - before):]
ContextFrom(out, marker, before) ==
    LET start == find(out, marker) - before
    IN SliceFrom(out, IF start > 0 THEN start ELSE 0)

\* actual_error as the chain leaves it; <<>> stands for None as well as for
\* the empty text, which the test that follows does not tell apart.
PatternError(out) ==
    CASE Strategy(out) = "traceback" -> SliceFrom(out, find(out, TracebackMarker))
      [] Strategy(out) = "syntax" -> ContextFrom(out, SyntaxErrorMarker, SyntaxContextChars)
      [] Strategy(out) = "name" -> ContextFrom(out, NameErrorMarker, NameContextChars)
      [] Strategy(out) = "error_lines" -> join_lines(LastLines(error_lines(out)))
      [] OTHER -> <<>>

\* if not actual_error or len(actual_error) < 50
UsesFallback(out) == PatternError(out) = <<>> \/ Len(PatternError(out)) < MinErrorChars

\* The "error_message" of the failure result.
actual_error(out) ==
    IF UsesFallback(out) THEN LastChars(out, TailChars) ELSE PatternError(out)

Filler(n) == [i \in 1..n |-> "x"]

\* Six lines that each carry the generic marker.
SixErrorLines ==
    Flatten([i \in 1..6 |-> ErrorColonMarker \o <<"\n">>])

\* What the renderer's output is put together from.
OutputChunks ==
    { TracebackMarker, SyntaxErrorMarker, NameErrorMarker, LowerErrorColonMarker,
      <<"\n">>, Filler(MinErrorChars), Filler(600), SixErrorLines }

Outputs(n) == { Flatten(cs) : cs \in SeqUpTo(OutputChunks, n) }

StdoutTexts == { <<>>, LowerErrorColonMarker }

InitExtract ==
    /\ fn = "execute_manim_script"
    /\ \E stderr \in Outputs(MaxOutChunks) : \E stdout \in StdoutTexts :
         fn_args = [stderr |-> stderr, stdout |-> stdout]
    /\ fn_ret = None_
    /\ fn_calls = 0
    /\ KBIdle
    /\ ClientIdle
    /\ SharedIdle

\* The failure branch of execute_manim_script on the renderer's output.
ApplyExtract ==
    /\ fn = "execute_manim_script"
    /\ fn_calls = 0
    /\ fn_ret' = [error_message |->
                     actual_error(error_output(fn_args.stderr, fn_args.stdout))]
    /\ fn_calls' = 1
    /\ UNCHANGED <<fn, fn_args, kbVars, clVars, shVars>>

NextExtract == ApplyExtract

SpecExtract == InitExtract /\ [][NextExtract]_vars

(***************************************************************************)
(* The output file of a rendered topic in animate: the sanitized topic     *)
(* name, an underscore, the topic index and ".mp4".  Names are sequences   *)
(* of characters.                                                          *)
(***************************************************************************)
MaxNameChunks == 2

MaxNameLen == 50

Digits == <<"0", "1", "2", "3", "4", "5", "6", "7", "8", "9">>

RECURSIVE str_nat(_)
str_nat(n) ==
    IF n < 10 THEN <<Digits[n + 1]>> ELSE str_nat(n \div 10) \o <<Digits[(n % 10) + 1]>>

\* the topic index as f"{topic_idx}" writes it
str_int(i) == IF i < 0 THEN <<"-">> \o str_nat(0 - i) ELSE str_nat(i)

\* [^\w\-]: what re.sub removes is every character this does not hold of
IsFilenameChar(c) ==
    \/ c \in { "a", "A", "_", "-" }
    \/ \E d \in 1..10 : c = Digits[d]

\* name.replace(" ", "_")
replace_spaces(name) == [i \in 1..Len(name) |-> IF name[i] = " " THEN "_" ELSE name[i]]

\* _sanitize_filename(name)
sanitize_filename(name) ==
    LET sanitized == SelectSeq(replace_spaces(name), IsFilenameChar)
    IN lower(SubSeq(sanitized, 1,
                    IF Len(sanitized) > MaxNameLen THEN MaxNameLen ELSE Len(sanitized)))

\* An output file named after the topic alone.
output_file_without_index(name, idx) ==
    sanitize_filename(name) \o <<".mp4">>

\* rendered_videos_path / f"{sanitized_name}_{topic_idx}.mp4"
output_file(name, idx) ==
    sanitize_filename(name) \o <<"_">> \o str_int(idx) \o <<".mp4">>

\* breakdown.topics[topic_idx], topic_idx below len(topics), negative or not
TopicAt(topics, idx) ==
    IF idx < 0 THEN topics[Len(topics) + idx + 1] ELSE topics[idx + 1]

\* What topic names are put together from; the last piece alone fills the
\* 50 characters a sanitized name is cut to.
NameChunks ==
    { <<"A">>, <<" ">>, <<"!">>, <<"_", "1">>, <<"-">>, [i \in 1..MaxNameLen |-> "a"] }

Names(n) == { Flatten(cs) : cs \in SeqUpTo(NameChunks, n) }

\* A batch over two topics, both rendered: any name for the first, a name of
\* at most one piece for the second, and any two indices animate accepts.
InitFilename ==
    /\ fn = "animate"
    /\ \E n1 \in Names(MaxNameChunks) : \E n2 \in Names(1) :
       \E i1 \in -2..1 : \E i2 \in -2..1 :
         fn_args = [topics |-> <<n1, n2>>, topic_indices |-> <<i1, i2>>]
    /\ fn_ret = [rendered_videos |-> <<>>]
    /\ fn_calls = 0
    /\ KBIdle
    /\ ClientIdle
    /\ SharedIdle

\* shutil.copy(video_path, output_file) for the next topic of the batch;
\* the folder maps each file to the topic index whose video it holds.
CopyVideo ==
    /\ fn = "animate"
    /\ fn_calls < Len(fn_args.topic_indices)
    /\ LET idx == fn_args.topic_indices[fn_calls + 1]
           name == TopicAt(fn_args.topics, idx)
       IN fn_ret' = [rendered_videos |->
                        (output_file(name, idx) :> idx)
                            @@ fn_ret.rendered_videos]
    /\ fn_calls' = fn_calls + 1
    /\ UNCHANGED <<fn, fn_args, kbVars, clVars, shVars>>

NextFilename == CopyVideo

SpecFilename == InitFilename /\ [][NextFilename]_vars

(***************************************************************************)
(* What fix_code_with_claude makes of the answer of the model.  An answer  *)
(* is a sequence of pieces: the fence marker, the word "python", blanks,   *)
(* newlines and other program text.                                        *)
(***************************************************************************)
MaxResponseChunks == 4

\* The marker of a markdown fence, three backquotes, as one piece.
FenceMarker == "<fence>"

\* text.strip()
strip(text) ==
    LET solid == { i \in 1..Len(text) : text[i] \notin { " ", "\n" } }
    IN IF solid = {} THEN <<>>
       ELSE SubSeq(text, CHOOSE i \in solid : \A j \in solid : i <= j,
                         CHOOSE i \in solid : \A j \in solid : i >= j)

\* text.split(marker)[1], for a text that holds the fence marker: what stands
\* between the first marker and the next one, or the end of the text.
SecondPart(text) ==
    LET fences == { i \in 1..Len(text) : text[i] = FenceMarker }
        first == CHOOSE i \in fences : \A j \in fences : i <= j
        later == fences \ {first}
        next == IF later = {} THEN Len(text) + 1
                ELSE CHOOSE i \in later : \A j \in later : i <= j
    IN SubSeq(text, first + 1, next - 1)

\* .replace("python", "")
WithoutPython(piece) == piece # "python"

\* Lines 285-291: the text fix_code_with_claude returns for the answer.
fixed_code(text) ==
    IF \E i \in 1..Len(text) : text[i] = FenceMarker
    THEN strip(SelectSeq(SecondPart(text), WithoutPython))
    ELSE text

\* What answers are put together from; the last piece is an opening fence
\* with its language tag.
ResponseChunks ==
    { <<FenceMarker>>, <<"python">>, <<"\n">>, <<" ">>, <<"x">>, <<FenceMarker, "python", "\n">> }

Responses(n) == { Flatten(cs) : cs \in SeqUpTo(ResponseChunks, n) }

InitFence ==
    /\ fn = "fix_code_with_claude"
    /\ \E text \in Responses(MaxResponseChunks) : fn_args = [text |-> text]
    /\ fn_ret = None_
    /\ fn_calls = 0
    /\ KBIdle
    /\ ClientIdle
    /\ SharedIdle

\* fixed_code = response[...]["text"]; strip the fences; return fixed_code
ApplyFence ==
    /\ fn = "fix_code_with_claude"
    /\ fn_calls = 0
    /\ fn_ret' = [fixed_code |-> fixed_code(fn_args.text)]
    /\ fn_calls' = 1
    /\ UNCHANGED <<fn, fn_args, kbVars, clVars, shVars>>

NextFence == ApplyFence

SpecFence == InitFence /\ [][NextFence]_vars

(***************************************************************************)
(* Properties of generate_manim_animation, checked under Spec.             *)
(***************************************************************************)

\* C1: over the initial syntax loop and every nested re-validation, the
\* number of fix_code_with_claude("syntax") calls never exceeds
\* max_syntax_fixes.
C1_SyntaxModelCallsWithinBudget == modelSyntaxCalls <= max_syntax_fixes

\* C2: the number of execute_manim_script calls (the first render plus all
\* re-renders) never exceeds max_runtime_fixes + 1.
C2_RenderCallsBounded == renderCalls <= max_runtime_fixes + 1

C2_Witness == pc = "done" /\ renderCalls = max_runtime_fixes + 1

\* C3: the runtime-fix counter only grows, fix_code_with_claude("runtime") is
\* never called once the counter has reached max_runtime_fixes (so at most
\* max_runtime_fixes runtime fixes are made), and a failed render with the
\* budget exhausted ends the run, which returns the last render outcome.
C3_RuntimeBudget ==
    /\ [](/\ runtime_fix_count <= max_runtime_fixes
          /\ modelRuntimeCalls <= max_runtime_fixes
          /\ (pc = "model_runtime_fix" => modelRuntimeCalls < max_runtime_fixes)
          /\ (pc = "done" => returned.execution_result = execution_result))
    /\ [][runtime_fix_count' >= runtime_fix_count]_vars
    /\ [][(/\ pc = "runtime_loop"
           /\ ~execution_result.success
           /\ runtime_fix_count = max_runtime_fixes)
          => (/\ pc' = "final"
              /\ modelRuntimeCalls' = modelRuntimeCalls
              /\ renderCalls' = renderCalls
              /\ execution_result' = execution_result)]_vars

C3_Witness ==
    /\ pc = "done"
    /\ ~returned.execution_result.success
    /\ modelRuntimeCalls = max_runtime_fixes
    /\ returned.execution_result.of = returned.script.id

\* C4: when the initial syntax loop ends with a syntax error and the budget
\* exhausted, the run fails there: no render and no runtime fix follows.
C4_FailedSyntaxNeverRendered ==
    ("Max syntax fixes reached" \in log) =>
        (renderCalls = 0 /\ modelRuntimeCalls = 0)

\* The last nested re-validation of a runtime iteration failed (line 747).
SkippedAttempt == pc = "runtime_loop" /\ runtime_fix_count > 0 /\ ~is_valid

\* C5: in the runtime-fix loop a re-render happens only after the patched
\* candidate went through validate_python_syntax and the latest verdict is
\* valid; a runtime fix whose output still fails the check is not rendered.
C5_RerenderOnlyAfterSyntaxOk ==
    /\ pc = "nested_api" => (is_valid /\ syntax_checked = script.id)
    /\ pc = "rerender" => is_valid
    /\ (renderCalls > 1 /\ execution_result.of = script.id) => is_valid
    /\ SkippedAttempt => execution_result.of # script.id

C5_Witness ==
    /\ pc = "runtime_loop"
    /\ renderCalls > 1
    /\ execution_result.of = script.id
    /\ modelSyntaxCalls > 0
    /\ "Skipping this attempt" \in log

C13_TimeoutIsARenderFailure ==
    /\ [](execution_result.error_message = "Timeout after 600s"
            => ~execution_result.success)
    /\ [][(pc \in {"render", "rerender"}) =>
            (/\ execution_result' \in RenderOutcomes(script)
             /\ pc' \in {"runtime_loop", "final"}
             /\ (~execution_result'.success => pc' = "runtime_loop"))]_vars
    /\ [][(/\ pc = "runtime_loop"
           /\ execution_result.error_message = "Timeout after 600s")
          => (IF runtime_fix_count < max_runtime_fixes
              THEN (/\ pc' = "model_runtime_fix"
                    /\ runtime_fix_count' = runtime_fix_count + 1)
              ELSE (/\ pc' = "final"
                    /\ runtime_fix_count' = runtime_fix_count))]_vars
    /\ [][(pc = "model_runtime_fix") =>
            (modelRuntimeCalls' = modelRuntimeCalls + 1)]_vars

\* A re-render that timed out, answered by the second runtime fix.
C13_Witness ==
    /\ pc = "nested_validate"
    /\ execution_result.error_message = "Timeout after 600s"
    /\ renderCalls = 2
    /\ modelRuntimeCalls = 2

\* C14: every candidate text the run has produced is held by some file of
\* INTERMEDIATE_DIR when the run ends: each patch was saved as a record of
\* its own and no later write replaced it.
C14_EveryCandidateKeptInTrail ==
    pc = "done" =>
        \A i \in 1..(nextId - 1) : \E f \in DOMAIN files : files[f] = i

(***************************************************************************)
(* Properties of EdulyAnimationClient, checked under SpecClient.           *)
(***************************************************************************)

\* C7: no exception raised by a collaborator during one topic leaves
\* animate: the topic gets a failed AnimationResult and every later index of
\* topic_indices is still processed, so animate returns one result per index.
C7_NoExceptionEscapesAnimate ==
    mode = "batch" =>
        /\ cpc # "raised"
        /\ (cpc = "returned" => Len(results) = Len(topic_indices))

\* C8: every AnimationResult returned by animate_single or appended by
\* animate has a video_path exactly when success is true.
C8_TerminalStateExclusivity ==
    \A i \in 1..Len(results) :
        /\ results[i].success => results[i].video_path # None_
        /\ ~results[i].success => results[i].video_path = None_

\* A batch whose first topic used up its retries and whose second topic's
\* video was found in the second folder of possible_dirs only.
C8_Witness ==
    /\ mode = "batch"
    /\ cpc = "returned"
    /\ Len(results) = 2
    /\ ~results[1].success
    /\ results[1].iterations > 0
    /\ results[2].success
    /\ ~HasVideo(ws, possible_dirs[1])

\* C9: in animate_single, when the first k-1 renders fail and the k-th
\* succeeds (1 <= k <= max_iterations + 1), the call returns success with
\* iterations = k-1 after exactly k renders, and no fix or render follows the
\* first successful render.
C9_SuccessAtKthRender ==
    mode = "single" =>
        LET k == Len(renderLog) IN
        /\ \A i \in 1..k : renderLog[i] => i = k
        /\ (k > 0 /\ renderLog[k]) =>
             /\ k <= max_iterations + 1
             /\ renders = k
             /\ agentCalls = k
             /\ iteration = k - 1
             /\ cpc \in {"as_loop", "as_collect", "returned", "raised"}
             /\ cpc = "returned" =>
                  /\ results[1].success
                  /\ results[1].iterations = k - 1

C9_Witness ==
    /\ mode = "single"
    /\ cpc = "returned"
    /\ max_iterations = 2
    /\ renderLog = <<FALSE, FALSE, TRUE>>
    /\ results[1].success

\* C10: in animate_single, when every render fails, the call returns failure
\* with iterations = max_iterations after exactly max_iterations + 1 renders,
\* and the error reported is the stderr of the last render.
C10_FailureAfterBudget ==
    (/\ mode = "single"
     /\ cpc = "returned"
     /\ \A i \in 1..Len(renderLog) : ~renderLog[i]) =>
        /\ ~results[1].success
        /\ results[1].iterations = max_iterations
        /\ Len(renderLog) = max_iterations + 1
        /\ renders = max_iterations + 1
        /\ agentCalls = max_iterations + 1
        /\ results[1].error_message = [render |-> renders]

C10_Witness ==
    /\ mode = "single"
    /\ cpc = "returned"
    /\ max_iterations = 2
    /\ renderLog = <<FALSE, FALSE, FALSE>>
    /\ ~results[1].success

\* The positions of animate between _prepare_workspace and the append of
\* the topic's result: the repair loop of one topic.
InRepairLoop ==
    cpc \in {"an_prepare", "an_prompt", "an_invoke", "an_render", "an_loop",
             "an_fix", "an_rerender", "an_collect"}

C12_OneResultPerIndexInOrder ==
    mode = "batch" =>
        /\ cpc \in {"an_for", "returned"} => Len(results) = ti
        /\ InRepairLoop => Len(results) = ti
        /\ cpc = "returned" => Len(results) = Len(topic_indices)
        /\ Len(results) <= Len(topic_indices)
        /\ \A i \in 1..Len(results) : results[i].topic_index = topic_indices[i]

\* A returned batch mixing a topic that failed after its retries, and an
\* index with no topic in the breakdown.
C12_Witness ==
    /\ mode = "batch"
    /\ cpc = "returned"
    /\ Len(results) = 2
    /\ topic_indices[1] # topic_indices[2]
    /\ ~results[1].success
    /\ results[1].iterations = 2
    /\ results[2].error_message = [text |-> "No topic found in breakdown"]

\* C16: in animate and in animate_single the workspace is emptied and
\* scene.py reset to the boilerplate before the topic's first agent run, and
\* at the topic's first render it holds the scene of that one agent run and
\* no video; from then on every video in it was rendered for the current
\* topic, so a passed render check is never due to an earlier topic's file.
C16_WorkspaceResetBeforeTopic ==
    /\ cpc \in {"as_prompt", "as_invoke", "an_prompt", "an_invoke"} =>
          (ws = [scene |-> 0, videos |-> {}] /\ agentCalls = 0)
    /\ cpc \in {"as_render", "an_render"} =>
          (ws = [scene |-> 1, videos |-> {}] /\ agentCalls = 1)
    /\ cpc \in {"as_loop", "as_fix", "as_rerender", "as_collect",
                 "an_loop", "an_fix", "an_rerender", "an_collect"} =>
          /\ \A v \in ws.videos : v.by = topic_idx
          /\ success => \E v \in ws.videos : v.by = topic_idx

\* The second topic of a batch at its first render, after a first topic
\* whose video was found.
C16_Witness ==
    /\ mode = "batch"
    /\ cpc = "an_render"
    /\ ti = 1
    /\ results[1].success
    /\ topic_indices[1] # topic_indices[2]
    /\ ws.videos = {}

\* C18: once a call of on_progress has returned "abort" in animate_single,
\* no agent runs, nothing is rendered and the iteration counter does not
\* grow any more.
C18_AbortStopsTopic ==
    [][(mode = "single" /\ aborted) =>
          (/\ agentCalls' = agentCalls
           /\ renders' = renders
           /\ iteration' <= iteration)]_vars

(***************************************************************************)
(* Properties of both programs, checked under SpecBoth.                    *)
(***************************************************************************)

\* C15: a failed run of generate_manim_animation returns, and saves as
\* final_scene.py, the candidate that was current when it stopped (the
\* latest text produced) together with the outcome of the last render; a
\* failed animate_single returns the scene.py the last agent run left and
\* the stderr of the last render.
C15_FailureKeepsCandidateAndError ==
    /\ (pc = "done" /\ ~returned.execution_result.success) =>
          /\ returned.script = script
          /\ script.id = nextId - 1
          /\ files[FinalFile] = script.id
          /\ returned.execution_result = execution_result
    /\ (mode = "single" /\ cpc = "returned" /\ ~success) =>
          /\ ~results[1].success
          /\ results[1].scene_code = ws.scene
          /\ ws.scene = agentCalls
          /\ manim_result = [render |-> renders]
          /\ results[1].error_message = manim_result

\* A failed animate_single after two fixes by the agent.
C15_Witness ==
    /\ mode = "single"
    /\ cpc = "returned"
    /\ ~results[1].success
    /\ agentCalls = 3
    /\ renders = 3

(***************************************************************************)
(* Property of two calls on one workspace, checked under SpecShared.       *)
(***************************************************************************)

\* C17: of two calls that use the same workspace, at most one is between
\* its _prepare_workspace and the collection of its result: no call clears,
\* writes, renders in or reads the workspace while the other is in there.
C17_WorkspaceExclusive ==
    \A p, q \in Callers : p # q => ~(Owns(p) /\ Owns(q))

(***************************************************************************)
(* Property of auto_fix_deprecated_api, checked under SpecApiFix.          *)
(***************************************************************************)

\* C19: auto_fix_deprecated_api applied to its own output returns that
\* output unchanged, also when the deprecated call shapes are nested or
\* next to each other.
C19_RewriteIdempotent ==
    (fn = "auto_fix_deprecated_api" /\ fn_calls = 2) =>
        fn_ret.code = fn_args.code

(***************************************************************************)
(* Property of quick_fix_syntax, checked under SpecQuickFix.               *)
(***************************************************************************)

\* C20: for an error whose message is of no category quick_fix_syntax has a
\* rule for, the call returns was_fixed false and the source text as it
\* was, whatever the text and the line number.
C20_OtherCategoryUnchanged ==
    (/\ fn = "quick_fix_syntax"
     /\ fn_calls = 1
     /\ fn_args.error.msg \in OtherMessages) =>
        (~fn_ret.was_fixed /\ fn_ret.code = fn_args.code)


(***************************************************************************)
(* Properties of the error summary, checked under SpecExtract.             *)
(***************************************************************************)
\* The text the renderer printed, as the summary is cut from it.
RenderOutput == error_output(fn_args.stderr, fn_args.stdout)

Extracted == fn = "execute_manim_script" /\ fn_calls = 1

\* t ends with s
EndsWith(t, s) == Len(s) <= Len(t) /\ SubSeq(t, Len(t) - Len(s) + 1, Len(t)) = s

HasErrorLine(out) == \E i \in 1..Len(split_lines(out)) : IsErrorLine(split_lines(out)[i])

\* C21: when the output holds a traceback marker (with or without generic
\* error lines) the summary holds the whole text from the marker to the end
\* of the output; without it, a syntax-error marker decides, then a
\* name-error marker, and the generic error lines or the tail come last.
C21_TracebackFirst ==
    Extracted =>
        LET out == RenderOutput
            msg == fn_ret.error_message
        IN /\ Occurs(TracebackMarker, out)
                => EndsWith(msg, SliceFrom(out, find(out, TracebackMarker)))
           /\ (~Occurs(TracebackMarker, out) /\ Occurs(SyntaxErrorMarker, out))
                => EndsWith(msg, ContextFrom(out, SyntaxErrorMarker, SyntaxContextChars))
           /\ (~Occurs(TracebackMarker, out) /\ ~Occurs(SyntaxErrorMarker, out)
                  /\ Occurs(NameErrorMarker, out))
                => EndsWith(msg, ContextFrom(out, NameErrorMarker, NameContextChars))
           /\ (~Occurs(TracebackMarker, out) /\ ~Occurs(SyntaxErrorMarker, out)
                  /\ ~Occurs(NameErrorMarker, out))
                => msg \in { join_lines(LastLines(error_lines(out))),
                             LastChars(out, TailChars) }

\* A traceback that follows ten generic error lines of 50 characters or
\* more: the summary is the traceback, not the lines.
C21_Witness ==
    /\ Extracted
    /\ Occurs(TracebackMarker, RenderOutput)
    /\ Len(join_lines(LastLines(error_lines(RenderOutput)))) >= MinErrorChars
    /\ fn_ret.error_message
          = SliceFrom(RenderOutput, find(RenderOutput, TracebackMarker))
    /\ fn_ret.error_message # join_lines(LastLines(error_lines(RenderOutput)))


\* C30: when the output holds none of the traceback, syntax-error and
\* name-error markers but holds the generic error marker, the summary is
\* exactly the last 10 error lines joined (all of them when fewer), whatever
\* their length, and the tail of the output is the summary only when no
\* strategy matched.
C30_GenericLinesAreTheSummary ==
    Extracted =>
        /\ Strategy(RenderOutput) = "error_lines"
             => fn_ret.error_message = join_lines(LastLines(error_lines(RenderOutput)))
        /\ (fn_ret.error_message = LastChars(RenderOutput, TailChars)
               /\ fn_ret.error_message # PatternError(RenderOutput))
             => Strategy(RenderOutput) = "none"


(***************************************************************************)
(* Properties of the output files of a batch, checked under SpecFilename.  *)
(***************************************************************************)
Copied(k) == fn = "animate" /\ fn_calls >= k

\* The output file of the k-th topic of the batch.
FileOf(k) ==
    output_file(TopicAt(fn_args.topics, fn_args.topic_indices[k]),
                fn_args.topic_indices[k])

\* C22: two topics of one batch with distinct indices get distinct output
\* files, whatever their names, and each file keeps the video of its own
\* topic: no copy overwrites another topic's file.
C22_DistinctIndicesDistinctFiles ==
    Copied(2) =>
        \A j, k \in 1..2 :
            fn_args.topic_indices[j] # fn_args.topic_indices[k]
                => /\ FileOf(j) # FileOf(k)
                   /\ fn_ret.rendered_videos[FileOf(j)] = fn_args.topic_indices[j]

\* Two topics with distinct indices whose names sanitize to the same string.
C22_Witness ==
    /\ Copied(2)
    /\ fn_args.topic_indices[1] # fn_args.topic_indices[2]
    /\ fn_args.topics[1] # fn_args.topics[2]
    /\ sanitize_filename(TopicAt(fn_args.topics, fn_args.topic_indices[1]))
         = sanitize_filename(TopicAt(fn_args.topics, fn_args.topic_indices[2]))
    /\ TopicAt(fn_args.topics, fn_args.topic_indices[1])
         # TopicAt(fn_args.topics, fn_args.topic_indices[2])
    /\ DOMAIN fn_ret.rendered_videos = { FileOf(1), FileOf(2) }
    /\ FileOf(1) # FileOf(2)


(***************************************************************************)
(* The syntax-fix loop and the API gate of generate_manim_animation,       *)
(* checked under Spec.                                                     *)
(***************************************************************************)
\* The model patches made so far, syntax and runtime.
ModelPatches == modelSyntaxCalls + modelRuntimeCalls

\* C23: every iteration of the first syntax-fix loop starts with the
\* rule-based patcher; the model patcher is called in the iteration exactly
\* when the rule-based patcher left the text as it was, and the text that is
\* validated next was produced by exactly one of the two.
C23_RuleBasedFirstThenModel ==
    /\ [][(pc = "syntax_loop" /\ pc' # "render") => pc' = "quick_fix"]_vars
    /\ [][(pc = "quick_fix")
            => /\ modelSyntaxCalls' = modelSyntaxCalls
               /\ (script' # script) => pc' = "revalidate"
               /\ (script' = script) => pc' = "model_syntax_fix"]_vars
    /\ [][(pc' = "model_syntax_fix" /\ pc # pc')
            => (pc = "quick_fix" /\ script' = script)]_vars
    /\ [][(pc = "model_syntax_fix")
            => /\ modelSyntaxCalls' = modelSyntaxCalls + 1
               /\ script' # script
               /\ pc' = "revalidate"]_vars
    /\ [](pc = "revalidate" => script.id = syntax_checked + 1)

\* A second iteration, patched by the model after a first one that the
\* rule-based patcher handled.
C23_Witness ==
    /\ pc = "revalidate"
    /\ renderCalls = 0
    /\ syntax_fix_count = 2
    /\ modelSyntaxCalls = 1

\* C24: before the first render a unit of the syntax-fix budget is consumed
\* only by an iteration that calls the model patcher, so the loop gives up
\* on an invalid text only after max_syntax_fixes model patches.
C24_RuleBasedPatchIsFree ==
    (renderCalls = 0 /\ pc \in {"syntax_loop", "render"})
        => /\ syntax_fix_count = modelSyntaxCalls
           /\ (pc = "render" /\ ~is_valid) => modelSyntaxCalls = max_syntax_fixes

\* C25: the API gate runs after the first successful syntax validation, and
\* every text handed to the renderer has passed the gate after its last
\* model patch.
C25_GateAfterLastModelPatch ==
    /\ pc = "api_gate" => (is_valid /\ syntax_checked = script.id)
    /\ pc \in {"render", "rerender"} => api_checked = ModelPatches

\* C26: a pass of the API gate changes neither fix counter and never ends
\* the run: the validation (first pass) or the render (later passes) comes
\* next, on the text the gate returned, rewritten only when fixes were made.
C26_GateIsBestEffort ==
    [][(pc \in {"api_gate", "nested_api"})
        => /\ syntax_fix_count' = syntax_fix_count
           /\ runtime_fix_count' = runtime_fix_count
           /\ returned' = returned
           /\ pc' = (IF pc = "api_gate" THEN "validate" ELSE "rerender")
           /\ (script' # script) => fixes_applied' = "fixes"]_vars

\* The re-render that follows a gate which found issues and fixed none.
C26_Witness ==
    /\ pc = "runtime_loop"
    /\ renderCalls = 2
    /\ api_checked >= 1
    /\ is_api_valid = "False"
    /\ fixes_applied = "empty"


(***************************************************************************)
(* Properties of quick_fix_syntax, checked under SpecQuickFix.             *)
(***************************************************************************)
QuickFixed == fn = "quick_fix_syntax" /\ fn_calls = 1

\* C27: the text quick_fix_syntax returns has as many lines as the source,
\* and every line but the one the error reports is the source's line.
C27_OnlyReportedLineChanges ==
    QuickFixed =>
        /\ Len(fn_ret.code) = Len(fn_args.code)
        /\ \A i \in 1..Len(fn_args.code) :
              i # fn_args.error.lineno
                  => (i <= Len(fn_ret.code) /\ fn_ret.code[i] = fn_args.code[i])

\* A source of two lines whose reported line was patched; the other line,
\* unbalanced itself, is as it was.
C27_Witness ==
    /\ QuickFixed
    /\ fn_ret.was_fixed
    /\ Len(fn_args.code) = 2
    /\ fn_ret.code[fn_args.error.lineno] # fn_args.code[fn_args.error.lineno]
    /\ \E i \in 1..2 : i # fn_args.error.lineno /\ fn_args.code[i] = <<"x", "(">>

RECURSIVE RemoveLast(_, _, _)
\* line without its last n occurrences of c
RemoveLast(line, c, n) ==
    IF n = 0 \/ line = <<>> THEN line
    ELSE IF line[Len(line)] = c
         THEN RemoveLast(SubSeq(line, 1, Len(line) - 1), c, n - 1)
    ELSE RemoveLast(SubSeq(line, 1, Len(line) - 1), c, n) \o <<line[Len(line)]>>

\* C28: for an unbalanced-parenthesis error on a line of the text, more "("
\* than ")" on the line gives the line followed by the missing ")", more ")"
\* than "(" gives the line without its rightmost surplus ")"; every other
\* character of the line stays in place.
C28_ParenthesesBalancedAtTheEnd ==
    (/\ QuickFixed
     /\ fn_args.error.msg \in { NeverClosedParen, UnmatchedParen }
     /\ LineInRange(fn_args.code, fn_args.error))
        => LET line == fn_args.code[fn_args.error.lineno]
               opens == Count(line, "(")
               closes == Count(line, ")")
               patched == fn_ret.code[fn_args.error.lineno]
           IN /\ opens > closes => patched = line \o Repeat(")", opens - closes)
              /\ closes > opens => patched = RemoveLast(line, ")", closes - opens)


(***************************************************************************)
(* Properties of the API scan and rewrite, checked under SpecApiFix.       *)
(***************************************************************************)
ApiFixed == fn = "auto_fix_deprecated_api" /\ fn_calls >= 1

\* The source holds ShowCreation and no other pattern of the table.
OnlyShowCreation(code) ==
    /\ \E i \in 1..Len(code) : code[i] = "ShowCreation"
    /\ \A i \in 1..Len(validate_manim_api(code).issues) :
          validate_manim_api(code).issues[i].found = "ShowCreation"

Stripped == fn = "fix_code_with_claude" /\ fn_calls = 1

Fences(text) == { i \in 1..Len(text) : text[i] = FenceMarker }

\* The program between the first two fences: the language tag that follows
\* the opening fence and the blanks around the program taken away, nothing
\* else.
EnclosedProgram(text) ==
    LET inside == SecondPart(text)
    IN strip(IF inside # <<>> /\ Head(inside) = "python" THEN Tail(inside) ELSE inside)

\* C31: for an answer with a pair of fences the returned text is the program
\* between the first two fences, with only the language tag after the
\* opening fence and the surrounding blanks removed; the returned text holds
\* no fence marker, and an answer without fences is returned as it is.
C31_FencesStrippedProgramKept ==
    Stripped =>
        /\ Cardinality(Fences(fn_args.text)) >= 2
             => fn_ret.fixed_code = EnclosedProgram(fn_args.text)
        /\ Fences(fn_args.text) # {} => Fences(fn_ret.fixed_code) = {}
        /\ Fences(fn_args.text) = {} => fn_ret.fixed_code = fn_args.text


(***************************************************************************)
(* Further properties of the client, checked under SpecClient.             *)
(***************************************************************************)
\* C32: a topic whose storyboard is null is turned down before anything is
\* done for it: with a null storyboard neither method gets as far as the
\* construction of the prompt, which follows the workspace preparation, and
\* no call ends in an exception because of it.
C32_NullStoryboardRejected ==
    /\ cpc = "as_prompt" => storyboards[1] # "null"
    /\ (cpc = "an_prompt" /\ topic_idx < Len(storyboards))
         => storyboards[topic_idx + 1] # "null"


\* The positions of the callbacks of animate_single with one of the statuses.
CallbacksWith(statuses) == { i \in 1..Len(progress) : progress[i].status \in statuses }

\* The callbacks made so far start with the one for the draft (attempt 0),
\* hold one per fix attempt, numbered 1, 2, ... in this order, and end with
\* the only terminal one, which carries the attempt count.
CallbacksInOrder ==
    /\ Len(progress) >= 2
    /\ progress[1].status = "Starting animation" /\ progress[1].iteration = 0
    /\ Cardinality(CallbacksWith({"Starting animation"})) = 1
    /\ Cardinality(CallbacksWith({"Render failed, retrying"})) = iteration
    /\ \A i, j \in CallbacksWith({"Render failed, retrying"}) :
          i < j => progress[i].iteration < progress[j].iteration
    /\ \A i \in CallbacksWith({"Render failed, retrying"}) :
          progress[i].iteration \in 1..iteration
    /\ CallbacksWith({"Success", "Failed"}) = { Len(progress) }
    /\ progress[Len(progress)].iteration = iteration

\* C33: when animate_single returns, the progress callback was made once for
\* the start of the draft (attempt 0), once per fix attempt with the attempt
\* numbers 1, 2, ..., k in increasing order, once at each render, and once,
\* last, with the outcome and the final attempt count.
C33_CallbackAtEveryTransition ==
    (mode = "single" /\ cpc = "returned" /\ on_progress)
        => /\ CallbacksInOrder
           /\ Len(progress) = 1 + iteration + renders + 1


C35_RuntimeFixGetsOwnError ==
    pc = "model_runtime_fix" => execution_result.of = script.id

\* C36: the outcome that generate_manim_animation returns is the outcome of
\* rendering the script it returns and saves as final_scene.py.
C36_ReturnedOutcomeOfReturnedScript ==
    pc = "done" =>
        /\ files[FinalFile] = returned.script.id
        /\ returned.execution_result.of = returned.script.id

(***************************************************************************)
(* The flag of quick_fix_syntax, checked under SpecQuickFix.               *)
(***************************************************************************)
\* C37: the flag returned by quick_fix_syntax is exact: with was_fixed
\* false the returned text is the source it was given, and with was_fixed
\* true the returned text differs from it.
C37_ChangedFlagExact ==
    QuickFixed =>
        /\ ~fn_ret.was_fixed => fn_ret.code = fn_args.code
        /\ fn_ret.was_fixed => fn_ret.code # fn_args.code

\* A reported fix that put the closing parenthesis in the place of a
\* trailing blank: the text has the length it had and is another text.
C37_Witness ==
    /\ QuickFixed
    /\ fn_ret.was_fixed
    /\ Len(fn_ret.code) = Len(fn_args.code)
    /\ \A i \in 1..Len(fn_args.code) : Len(fn_ret.code[i]) = Len(fn_args.code[i])
    /\ InError(NeverClosedParen, fn_args.error)

(***************************************************************************)
(* The fix report of the API rewrite, checked under SpecApiFix.            *)
(***************************************************************************)
\* C38: the list of fixes returned by auto_fix_deprecated_api is non-empty
\* exactly when the returned text differs from the source: no fix is
\* reported for a source in which nothing was substituted, as when the name
\* ShowCreation occurs only inside a longer identifier.
C38_FixReportExact ==
    ApiFixed => (fn_ret.fixes_applied # <<>> <=> fn_ret.code # fn_args.code)

(***************************************************************************)
(* animate_single and the per-topic loop of animate, under SpecClient.     *)
(***************************************************************************)
\* The topic in hand has been worked through: animate_single has returned,
\* or animate has appended the topic's result and is back at its for loop.
TopicDone ==
    \/ mode = "single" /\ cpc = "returned"
    \/ mode = "batch" /\ cpc = "an_for" /\ steps # <<>>

\* The render checks of a whole run of the retry loop of animate_single
\* (lines 372-411): every render but the last failed the check, and the last
\* one passed it or used up max_iterations.
CompleteRun(outcomes, max) ==
    /\ Len(outcomes) >= 1
    /\ Len(outcomes) <= max + 1
    /\ \A i \in 1..(Len(outcomes) - 1) : ~outcomes[i]
    /\ outcomes[Len(outcomes)] \/ Len(outcomes) = max + 1

\* The calls animate_single makes for these render checks (lines 355-411):
\* the workspace is prepared, the agent runs and its scene is rendered, and
\* each further render follows one more agent run.
StepsFor(outcomes) ==
    <<"prepare", "invoke", "render">>
        \o Flatten([i \in 1..(Len(outcomes) - 1) |-> <<"invoke", "render">>])

\* The AnimationResult animate_single returns for these render checks (lines
\* 413-449), last being the number of the last render made.
TopicResultFor(idx, outcomes, last) ==
    LET ok == outcomes[Len(outcomes)] IN
    [topic_index |-> idx,
     topic_name |-> idx,
     success |-> ok,
     video_path |-> IF ok THEN OutputFile(idx, idx) ELSE None_,
     scene_code |-> Len(outcomes),
     error_message |-> IF ok THEN None_ ELSE [render |-> last],
     iterations |-> Len(outcomes) - 1]

\* C39: for a topic that has a topic record and a storyboard, animate_single
\* and the per-topic loop of animate are the same machine: the render
\* checks and max_iterations determine, in the same way for both, the calls
\* made (workspace preparation, agent runs, renders, in order) and every
\* field of the AnimationResult.
C39_SingleAndBatchLoopAgree ==
    TopicDone =>
        /\ topic_idx < nTopics
        /\ CompleteRun(renderLog, max_iterations)
        /\ steps = StepsFor(renderLog)
        /\ results[Len(results)] = TopicResultFor(topic_idx, renderLog, renders)

\* The second topic of an animate call, done after two repairs, where the
\* first topic had failed with the same budget.
C39_Witness ==
    /\ mode = "batch"
    /\ TopicDone
    /\ Len(results) = 2
    /\ ~results[1].success
    /\ results[1].iterations = 2
    /\ results[2].success
    /\ results[2].iterations = 2
    /\ Len(steps) = 7

====
